---- MODULE Spec2Model ----
(***************************************************************************)
(* ProAct.js: reactive properties, streams and arrays propagating their    *)
(* updates through the flow (runs and queues of deferred invocations).     *)
(*                                                                         *)
(* src/src/js/properties/property.js, src/src/js/streams/stream.js and     *)
(* src/unnamed/part_000 (ProAct.Array) are modelled from their code.  The  *)
(* flow, its queues, the actor base class and the object core are not     *)
(* among the source files: they are modelled from the specification        *)
(* (sections 3, 4.1, 4.2, 4.3) and are marked so where they are defined.   *)
(***************************************************************************)
EXTENDS Integers, Sequences, FiniteSets, TLC

(* ------------------------------ bounds -------------------------------- *)

\* Simple (number) values are 0..MaxVal.
MaxVal == 2

\* Longest body of a run opened directly by the application.
MaxBody == 3

\* Longest backing array a splice of the application may leave.
MaxArr == 2

(* ------------------------------ values -------------------------------- *)

Vals == 0 .. MaxVal

\* JavaScript's null and undefined, the transform pipeline's bad-value
\* sentinel, and one token for each kind of non-simple value.
Nil == 0 - 1
Undef == 0 - 2
FunVal == 0 - 3
ArrVal == 0 - 4
ObjVal == 0 - 5
BadValue == 0 - 9

\* The event object with identity id, as a value: a property that a
\* listener sets to the event of an array holds that very object, and two
\* events are the same value only when they are the same object.
EvObj(id) == 0 - (20 + id)

\* What a transformation that throws yields in place of a value, and the
\* Error object the transformation boom throws.
Thrown == 0 - 8
BoomError == 0 - 10

\* What a field of the host object holds while a property intercepts it.
Accessor == 0 - 7

\* ProAct.Property.Types
TSimple == 0
TAuto == 1
TObject == 2
TArray == 3
TNil == 4

\* ProAct.Property.Types.type(value)
TypeOf(value) ==
  IF value = Nil THEN TNil
  ELSE IF value = FunVal THEN TAuto
  ELSE IF value = ArrVal THEN TArray
  ELSE IF value = ObjVal \/ value <= EvObj(0) THEN TObject
  ELSE TSimple

(* --------------------- the program under analysis --------------------- *)

\* Five fields of one host object obj, each made a property, and one
\* stream S.  The application derives at most one property from a property
\* (M, the field v of the object that ProAct.Property.value builds), at
\* most one stream from S (T) and at most one merged stream (U).
Fields == {"A", "B", "C", "D", "X"}
DerivedProps == {"M"}
Props == Fields \cup DerivedProps
Streams == {"S", "T", "U"}
Nodes == Props \cup Streams

\* Queue names: the flow's default queue and two named ones.
DefaultQ == "proq"
NoQ == "none"
QNames == {DefaultQ, "q1", "q2"}

\* The listeners of the program.  lB, lC, lD are the listeners the
\* properties B, C, D make of themselves (makeListener; lD2 would be a
\* second listener of D); the others are functions of the application:
\*   f1, f2, g2  observers that only record their event
\*   g1          function (e) { obj.X = <new value of e> }
\*   thr         function (e) { throw ... }
\*   rr          function (e) { P.flow.run(function () {
\*                                P.flow.pushOnce(f1, [e.new]) }) }
\*   spl         function (e) { arr.splice(0, 1, 1) }
\*   kD          function (e) { if (e.newVal === 0) { D.destroy() } }
\*   dv1         the listener that a deriving function of the array
\*               (slice, map, filter, concat, pevery, ...) subscribes to
\*               it: it refreshes the derived array or value, an object
\*               of its own that has no listeners
\*   rf          function (e) { var old = arr._array;
\*                              arr._array = [2, 1, 2];
\*                              arr.updateByDiff(old) }
\*               (the two lines of ProAct.Array.reFilter, for a filter
\*               whose result is [2, 1, 2])
PropListeners == {"lB", "lC", "lD", "lD2", "lM"}
StreamListeners == {"lT", "lU"}
Listeners ==
  PropListeners \cup StreamListeners
    \cup {"f1", "f2", "g1", "g2", "thr", "rr", "spl", "kD", "rf", "dv1"}

\* listener.property
LProp(l) ==
  CASE l = "lB" -> "B"
    [] l = "lC" -> "C"
    [] l \in {"lD", "lD2"} -> "D"
    [] l = "lM" -> "M"
    [] OTHER -> NoQ

\* The stream whose makeListener made the listener l.
LStream(l) ==
  CASE l = "lT" -> "T"
    [] l = "lU" -> "U"
    [] OTHER -> NoQ

\* A makeListener that builds a new listener at every call: the second
\* listener of D is another object than the first.
MakeListenerUncached(f, k) ==
  IF f = "D" /\ k > 1 THEN "lD2"
  ELSE CASE f = "B" -> "lB" [] f = "C" -> "lC" [] f = "M" -> "lM"
         [] OTHER -> "lD"

\* Property.prototype.makeListener, at its k-th call on property f: the
\* listener is built once and kept.
MakeListener(f, k) ==
  CASE f = "B" -> "lB" [] f = "C" -> "lC" [] f = "M" -> "lM"
    [] OTHER -> "lD"

\* Stream.prototype.makeListener: function (event) {
\*   stream.trigger(event, true) }, built once and kept.
StreamMakeListener(s) == IF s = "T" THEN "lT" ELSE "lU"

\* listener.queueName
LQueueName(l) ==
  CASE l \in {"g1", "g2"} -> "q1"
    [] l = "f2" -> "q2"
    [] OTHER -> NoQ

\* node.queueName: no node of the program names a queue.
NodeQueueName(n) == NoQ

\* Transformations of the program: a mapping and a filtering function.
\*   inc   function (v) { return v === null ? null : (v + 1) % (MaxVal + 1) }
\*   even  filtering by function (v) { return v % 2 === 0 }
\*   boom  function (v) { if (v === MaxVal) { throw new Error('boom') }
\*                        return v }
\* and one accumulation, with the initial value 0:
\*   sum   function (a, v) { return typeof v === 'number'
\*                                    ? (a + v) % (MaxVal + 1) : a }
ApplyTr(t, v) ==
  CASE t = "inc" -> IF v \in Vals THEN (v + 1) % (MaxVal + 1) ELSE v
    [] t = "even" -> IF v \in Vals /\ v % 2 # 0 THEN BadValue ELSE v
    [] t = "boom" -> IF v = MaxVal THEN Thrown ELSE v
    [] OTHER -> v

(* ------------------------------ events -------------------------------- *)

\* ProAct.Event: type, target and arguments.  A value event carries the
\* old and the new value of its property; a raw event is a value that a
\* stream or the application passes on as it is.
Event(type, target, old, new) ==
  [type |-> type, target |-> target, old |-> old, new |-> new,
   op |-> 0 - 1, ind |-> 0 - 1, sp |-> << >>, ins |-> << >>, id |-> 0 - 1]

\* The event of an array: operation, index, old values, new values, and
\* the identity of the event object (ArrayMakeEvent gives a new event its
\* own).
ArrEvent(o, ind, oldVals, newVals) ==
  [type |-> "array", target |-> "arr", old |-> Undef, new |-> Undef,
   op |-> o, ind |-> ind, sp |-> oldVals, ins |-> newVals, id |-> 0]

RawEvent(v) == Event("raw", NoQ, Undef, v)

(* ------------------------------- state -------------------------------- *)

VARIABLES
  val,        \* property.val of the cell bound to each field
  oldVal,     \* property.oldVal of that cell
  ptype,      \* property.type() of that cell
  pstate,     \* actor state of that cell: "init", "ready", "destroyed"
  isStatic,   \* property.isStaticTyped of that cell
  listeners,  \* node.listeners: per node, the listeners in order
  errListeners, \* node.errListeners
  transforms, \* node.transforms
  host,       \* the host object's field: Accessor, or its plain value
  table,      \* the fields in the property table of obj (__pro__.properties)
  dead,       \* the property listeners whose own cell has been destroyed
  dval,       \* val of the cell most recently destroyed at each field
  dold,       \* oldVal of that destroyed cell
  made,       \* the derived nodes (M, T, U) the application has built
  accum,      \* per node, the value its accumulation holds
  arr,        \* the array's backing storage, _array
  cells,      \* the indices the array exposes an index-cell for
  enqCells,   \* the index-cells exposed when the array last enqueued an update
  idxListeners, \* the array core's listeners.index
  lenListeners, \* the array core's listeners.length
  queue,      \* the open run's queues: queue name -> pending entries
  qorder,     \* the open run's queue names, in registration order
  running,    \* a run is open
  cur,        \* the queue the flush is draining (NoQ outside a flush)
  opened,     \* queue-sets allocated since the outermost run opened
  npush,      \* push and pushOnce calls made in the run so far
  napp,       \* entries those calls appended to a queue of the run
  log,        \* invocations the run's flush has executed, in order
  accepted,   \* per field, the last value its setter accepted
  threw,      \* an exception is propagating out of the current call
  lastSet,    \* the last call of a property's setter, before and after
  lastRead,   \* the last read of a field by the application
  op          \* the operation of the application that opened the run

vars ==
  << val, oldVal, ptype, pstate, isStatic, listeners, errListeners,
     transforms, host, table, dead, dval, dold, made, accum, arr, cells, enqCells, idxListeners, lenListeners,
     queue, qorder, running, cur, opened, npush,
     napp, log, accepted, threw, lastSet, lastRead, op >>

\* The whole state as one record: the operators below map a state to the
\* state after a call.
World ==
  [ val |-> val, oldVal |-> oldVal, ptype |-> ptype, pstate |-> pstate,
    isStatic |-> isStatic, listeners |-> listeners,
    errListeners |-> errListeners, transforms |-> transforms,
    host |-> host, table |-> table, dead |-> dead, dval |-> dval, dold |-> dold,
    made |-> made, accum |-> accum, arr |-> arr,
    cells |-> cells, enqCells |-> enqCells, idxListeners |-> idxListeners,
    lenListeners |-> lenListeners, queue |-> queue, qorder |-> qorder,
    running |-> running, cur |-> cur, opened |-> opened, npush |-> npush,
    napp |-> napp,
    log |-> log, accepted |-> accepted, threw |-> threw,
    lastSet |-> lastSet, lastRead |-> lastRead, op |-> op ]

Becomes(w) ==
  /\ val' = w.val
  /\ oldVal' = w.oldVal
  /\ ptype' = w.ptype
  /\ pstate' = w.pstate
  /\ isStatic' = w.isStatic
  /\ listeners' = w.listeners
  /\ errListeners' = w.errListeners
  /\ transforms' = w.transforms
  /\ host' = w.host
  /\ table' = w.table
  /\ dead' = w.dead
  /\ dval' = w.dval
  /\ dold' = w.dold
  /\ made' = w.made
  /\ accum' = w.accum
  /\ arr' = w.arr
  /\ cells' = w.cells
  /\ enqCells' = w.enqCells
  /\ idxListeners' = w.idxListeners
  /\ lenListeners' = w.lenListeners
  /\ queue' = w.queue
  /\ qorder' = w.qorder
  /\ running' = w.running
  /\ cur' = w.cur
  /\ opened' = w.opened
  /\ npush' = w.npush
  /\ napp' = w.napp
  /\ log' = w.log
  /\ accepted' = w.accepted
  /\ threw' = w.threw
  /\ lastSet' = w.lastSet
  /\ lastRead' = w.lastRead
  /\ op' = w.op

(* ------------------- Queue and Flow (specification 4.1) --------------- *)

Entry(l, ev) == [l |-> l, ev |-> ev]

\* Queue.push: append, duplicates allowed.
QueuePush(q, l, ev) == Append(q, Entry(l, ev))

\* A pushOnce that takes a pending entry for the same invocation out of
\* the queue and appends the new one at the end.
QueuePushOnceLast(q, l, ev) ==
  Append(SelectSeq(q, LAMBDA e : e.l # l), Entry(l, ev))

\* Queue.pushOnce: when an entry for the same invocation is pending, its
\* arguments are replaced in place; otherwise the entry is appended.
QueuePushOnce(q, l, ev) ==
  IF \E i \in 1 .. Len(q) : q[i].l = l
  THEN LET k == CHOOSE i \in 1 .. Len(q) :
                  /\ q[i].l = l
                  /\ \A j \in 1 .. (i - 1) : q[j].l # l
       IN [q EXCEPT ![k] = Entry(l, ev)]
  ELSE Append(q, Entry(l, ev))

\* The queue name a push without one goes to, and the registration of a
\* queue name at its first use in the run.
Register(order, qn) ==
  IF \E i \in 1 .. Len(order) : order[i] = qn THEN order ELSE Append(order, qn)

\* Flow.push(queueName, invocation, args): only while a run is open.
FlowPush(w, qname, l, ev) ==
  IF ~w.running THEN [w EXCEPT !.threw = TRUE]
  ELSE LET qn == IF qname = NoQ THEN DefaultQ ELSE qname
       IN [w EXCEPT !.queue[qn] = QueuePush(@, l, ev),
                    !.qorder = Register(@, qn),
                    !.npush = @ + 1,
                    !.napp = @ + 1]

\* Flow.pushOnce(queueName, invocation, args): only while a run is open.
FlowPushOnce(w, qname, l, ev) ==
  IF ~w.running THEN [w EXCEPT !.threw = TRUE]
  ELSE LET qn == IF qname = NoQ THEN DefaultQ ELSE qname
       IN [w EXCEPT !.queue[qn] = QueuePushOnce(@, l, ev),
                    !.qorder = Register(@, qn),
                    !.npush = @ + 1,
                    !.napp = @ + Len(QueuePushOnce(w.queue[qn], l, ev))
                               - Len(w.queue[qn])]

\* Opening a run: a fresh queue-set is allocated.
FlowOpen(w) ==
  [w EXCEPT !.running = TRUE,
            !.queue = [qn \in QNames |-> << >>],
            !.qorder = << DefaultQ >>,
            !.cur = NoQ,
            !.opened = IF w.running THEN @ + 1 ELSE 1,
            !.npush = 0,
            !.napp = 0,
            !.log = << >>]

\* Flow.run(body), the part before the body: a run that is already open
\* is reused, the body then executes inline.
FlowEnter(w) == IF w.running THEN w ELSE FlowOpen(w)

\* Flow.isRunning()
IsRunning(w) == w.running

\* The first queue, in registration order, that holds a pending entry.
FirstPending(w) ==
  IF \E i \in 1 .. Len(w.qorder) : w.queue[w.qorder[i]] # << >>
  THEN w.qorder[CHOOSE i \in 1 .. Len(w.qorder) :
                  /\ w.queue[w.qorder[i]] # << >>
                  /\ \A j \in 1 .. (i - 1) : w.queue[w.qorder[j]] = << >>]
  ELSE NoQ

\* A flush that only moves forward: after a queue it goes to the next
\* queue in the order that holds an entry and never back.
AdvanceForward(w) ==
  IF w.cur # NoQ /\ w.queue[w.cur] # << >> THEN w
  ELSE LET later == {i \in 1 .. Len(w.qorder) :
                       /\ w.queue[w.qorder[i]] # << >>
                       /\ \A k \in 1 .. Len(w.qorder) :
                            w.qorder[k] = w.cur => k < i}
       IN IF later = {}
          THEN [w EXCEPT !.running = FALSE, !.cur = NoQ,
                         !.qorder = << DefaultQ >>]
          ELSE [w EXCEPT !.cur = w.qorder[CHOOSE i \in later :
                                            \A j \in later : i <= j]]

\* A flush that takes the queues in the reverse of their order.
AdvanceLast(w) ==
  IF w.cur # NoQ /\ w.queue[w.cur] # << >> THEN w
  ELSE LET some == {i \in 1 .. Len(w.qorder) : w.queue[w.qorder[i]] # << >>}
       IN IF some = {}
          THEN [w EXCEPT !.running = FALSE, !.cur = NoQ,
                         !.qorder = << DefaultQ >>]
          ELSE [w EXCEPT !.cur = w.qorder[CHOOSE i \in some :
                                            \A j \in some : j <= i]]

\* The flush between two invocations: the queue being drained is drained
\* to its end (entries pushed on it meanwhile included); then the flush
\* goes to the first queue, in the fixed order, that holds an entry; when
\* none does the run closes.
Advance(w) ==
  IF w.cur # NoQ /\ w.queue[w.cur] # << >> THEN w
  ELSE LET n == FirstPending(w)
       IN IF n = NoQ
          THEN [w EXCEPT !.running = FALSE, !.cur = NoQ,
                         !.qorder = << DefaultQ >>]
          ELSE [w EXCEPT !.cur = n]

(* ------------------------ Actor (specification 4.2) ------------------- *)

\* The accumulation function sum.
Accumulate(a, v) == IF v \in Vals THEN (a + v) % (MaxVal + 1) ELSE a

\* Actor.transform: the pipeline in order; a rejection ends it.  The
\* transformation Actor.accumulation adds keeps the accumulated value a in
\* its closure: the result is the value and the accumulated value after
\* the pipeline.
RECURSIVE TransformAll(_, _, _)
TransformAll(ts, a, v) ==
  IF ts = << >> \/ v = BadValue \/ v = Thrown THEN [v |-> v, a |-> a]
  ELSE IF Head(ts) = "sum"
  THEN TransformAll(Tail(ts), Accumulate(a, v), Accumulate(a, v))
  ELSE TransformAll(Tail(ts), a, ApplyTr(Head(ts), v))

\* Actor.transform of a pipeline without an accumulation.
ActorTransform(ts, v) == TransformAll(ts, 0, v).v

\* Actor.defer: pushOnce on the listener's queue, else the node's, else
\* the default one.
ActorDefer(w, n, l, ev) ==
  LET qn == IF LQueueName(l) # NoQ THEN LQueueName(l) ELSE NodeQueueName(n)
  IN FlowPushOnce(w, qn, l, ev)

\* Property.prototype.makeEvent
MakeEvent(w, f) == Event("value", f, w.oldVal[f], w.val[f])

\* Actor.update of a property: every subscribed listener is deferred; a
\* run is opened when none is open.  Only a ready node publishes.
RECURSIVE WillUpdate(_, _, _, _)
WillUpdate(w, n, ls, ev) ==
  IF ls = << >> THEN w
  ELSE WillUpdate(ActorDefer(w, n, Head(ls), ev), n, Tail(ls), ev)

ActorUpdate(w, f) ==
  IF w.pstate[f] # "ready" THEN w
  ELSE WillUpdate(FlowEnter(w), f, w.listeners[f], MakeEvent(w, f))

\* Actor.destroy with Property.prototype.doDestroy: the field becomes a
\* plain field holding the last value.  (ActorDestroy is below.)
\* A doDestroy that clears the cell and leaves the field and the host's
\* property table as they are.
DoDestroyNoRestore(w, f) ==
  [w EXCEPT !.oldVal[f] = Undef,
            !.val[f] = Undef,
            !.isStatic[f] = FALSE]

\* Property.prototype.doDestroy.  A cell that went through it has no
\* proObject any more: its first line then throws a TypeError.
DoDestroy(w, f) ==
  IF w.host[f] # Accessor THEN [w EXCEPT !.threw = TRUE]
  ELSE [w EXCEPT !.table = @ \ {f},
                 !.host[f] = w.val[f],
                 !.oldVal[f] = Undef,
                 !.val[f] = Undef,
                 !.isStatic[f] = FALSE]

\* A destroy without the test of the state.
ActorDestroyAgain(w, f) ==
  DoDestroy([w EXCEPT !.pstate[f] = "destroyed",
                      !.dead = @ \cup {l \in PropListeners : LProp(l) = f},
                      !.listeners[f] = << >>,
                      !.errListeners[f] = << >>,
                      !.transforms[f] = << >>], f)

\* Actor.on(listener): nothing for a listener already subscribed or a
\* destroyed node; the node's own listener is a misuse, reported at once.
ActorOn(w, f, l) ==
  IF (f \in Props /\ w.pstate[f] = "destroyed")
       \/ (\E i \in DOMAIN w.listeners[f] : w.listeners[f][i] = l)
  THEN w
  ELSE IF LProp(l) = f /\ l \notin w.dead
  THEN [w EXCEPT !.threw = TRUE]
  ELSE [w EXCEPT !.listeners[f] = Append(@, l)]

\* Actor.off(listener): nothing for a listener that is not subscribed.
ActorOff(w, f, l) ==
  [w EXCEPT !.listeners[f] = SelectSeq(@, LAMBDA x : x # l)]

ActorDestroy(w, f) ==
  IF w.pstate[f] = "destroyed" THEN w
  ELSE DoDestroy([w EXCEPT !.pstate[f] = "destroyed",
                           !.dead = @ \cup {l \in PropListeners :
                                              LProp(l) = f},
                           !.listeners[f] = << >>,
                           !.errListeners[f] = << >>,
                           !.transforms[f] = << >>], f)

\* The fields of the host object exempt from the type-driven rebuild
\* (meta.p.statics): B, as the field v of a cell that
\* ProAct.Property.lazyValue builds with its default options.
Statics == {"B", "M"}

\* ObjectCore.makeProp(name, listeners) with the Property constructor: a
\* new cell of the field value's type takes the field over.  The cell it
\* replaces is kept as the field's destroyed cell.
MakeProp(w, f, ls) ==
  [w EXCEPT !.dval[f] = w.val[f],
            !.dold[f] = w.oldVal[f],
            !.val[f] = w.host[f],
            !.oldVal[f] = Nil,
            !.ptype[f] = TypeOf(w.host[f]),
            !.pstate[f] = "ready",
            !.isStatic[f] = f \in Statics,
            !.listeners[f] = ls,
            !.errListeners[f] = << >>,
            !.transforms[f] = << >>,
            !.table = @ \cup {f},
            !.host[f] = Accessor]

(* ------------------------------ Property ------------------------------ *)

\* The setter function handed to defaultSetter: the Property constructor
\* hands none.
HasSetter(f) == FALSE
SetterResult(f, newVal) == newVal

\* What a run has pushed so far, counted from outside any run as nothing.
PushCount(w) == IF w.running THEN w.npush ELSE 0

\* The record of a setter call: the call, the cell before and the same
\* cell after.
SetRecord(w, w2, f, arg, tv, acc, reprob) ==
  [f |-> f, arg |-> arg, tv |-> tv, accepted |-> acc,
   reprob |-> reprob,
   preVal |-> w.val[f], preOld |-> w.oldVal[f],
   preType |-> w.ptype[f], preStatic |-> w.isStatic[f],
   cellType |-> w2.ptype[f], cellHost |-> w2.host[f],
   postVal |-> IF reprob THEN w2.dval[f] ELSE w2.val[f],
   postOld |-> IF reprob THEN w2.dold[f] ELSE w2.oldVal[f],
   cellVal |-> w2.val[f], cellOld |-> w2.oldVal[f],
   enq |-> PushCount(w2) - PushCount(w),
   threw |-> w2.threw]

\* A reProb that hands the listeners it took from the old cell to nobody:
\* makeProp(p) instead of makeProp(p, l).
ReProbUpdateBare(w, f) ==
  IF w.isStatic[f] \/ w.pstate[f] # "ready"
  THEN [w EXCEPT !.threw = TRUE]
  ELSE ActorUpdate(MakeProp(ActorDestroy(w, f), f, << >>), f)

\* ProAct.Property.reProb(property).update()
ReProbUpdate(w, f) ==
  IF w.isStatic[f] \/ w.pstate[f] # "ready"
  THEN [w EXCEPT !.threw = TRUE]
  ELSE ActorUpdate(MakeProp(ActorDestroy(w, f), f, w.listeners[f]), f)

\* The setter's test for a rebuild, in the form the code keeps as a
\* comment: only null and undefined ask for one.
NeedsReProbNilOnly(w, f) == w.val[f] = Nil \/ w.val[f] = Undef

\* The setter's test for a rebuild: the property is not auto and the type
\* of its new value is not its own.
NeedsReProb(w, f) ==
  w.ptype[f] # TAuto /\ TypeOf(w.val[f]) # w.ptype[f]

\* The setter's early return.
SetterSkipsBadOnly(w, f, newVal) == newVal = BadValue

SetterSkips(w, f, newVal) == newVal = BadValue \/ w.val[f] = newVal

\* The setter's assignments.
SetterStoreNoOld(w, f, newVal) ==
  [w EXCEPT !.val[f] = newVal, !.accepted[f] = newVal]

SetterStore(w, f, newVal) ==
  [w EXCEPT !.oldVal[f] = w.val[f],
            !.val[f] = IF HasSetter(f) THEN SetterResult(f, newVal)
                       ELSE newVal,
            !.accepted[f] = newVal]

\* The function ProAct.Property.defaultSetter returns.
DefaultSetter(w0, f, arg) ==
  LET t == TransformAll(w0.transforms[f], w0.accum[f], arg)
      newVal == t.v
      w == [w0 EXCEPT !.accum[f] = t.a]
  IN IF newVal = Thrown THEN [w EXCEPT !.threw = TRUE]
     ELSE IF SetterSkips(w, f, newVal)
     THEN [w EXCEPT !.lastSet =
             SetRecord(w, w, f, arg, newVal, FALSE, FALSE)]
     ELSE LET w1 == SetterStore(w, f, newVal)
              reprob == NeedsReProb(w1, f)
              w2 == IF reprob THEN ReProbUpdate(w1, f)
                    ELSE ActorUpdate(w1, f)
          IN [w2 EXCEPT !.lastSet =
                SetRecord(w, w2, f, arg, newVal, TRUE,
                          reprob /\ ~w2.threw)]

\* The call function of the listener Property.prototype.makeListener
\* makes: a value event is replaced by the current value of the field it
\* names, and the property is set to it.  The event of an array is an
\* object, and the property is set to that very object: the setter skips
\* it only when the property holds the same event object already.
ReadField(w, f) == IF w.host[f] = Accessor THEN w.val[f] ELSE w.host[f]

\* doDestroy leaves the listener's property without its set function:
\* the call of a listener whose cell is destroyed throws a TypeError.
ListenerCall(w, l, ev) ==
  LET newVal == IF ev.type = "value" /\ ev.target \in Props
                THEN ReadField(w, ev.target)
                ELSE IF ev.type = "array" THEN EvObj(ev.id)
                ELSE ev.new
  IN IF l \in w.dead THEN [w EXCEPT !.threw = TRUE]
     ELSE DefaultSetter(w, LProp(l), newVal)

\* Property.prototype.addCaller without the test that the caller is not
\* the property's own listener.
AddCallerAny(w, f, caller) ==
  IF caller # NoQ THEN ActorOn(w, f, caller) ELSE w

\* Property.prototype.addCaller: P.currentCaller, when it is set and is not
\* the listener of this very property, is subscribed.
AddCaller(w, f, caller) ==
  IF caller # NoQ /\ ~(LProp(caller) = f /\ caller \notin w.dead)
  THEN ActorOn(w, f, caller)
  ELSE w

\* A getter that returns the value without looking at the caller.
GetFieldUntracked(w, f, caller) ==
  LET result == IF w.host[f] # Accessor THEN w.host[f] ELSE w.val[f]
  IN [w EXCEPT !.lastRead = [f |-> f, caller |-> caller, result |-> result,
                             subscribed |-> FALSE]]

\* obj.f read while P.currentCaller is caller: the function that
\* ProAct.Property.defaultGetter returns while a property intercepts the
\* field, the plain field after its destruction.
GetField(w, f, caller) ==
  LET w1 == IF w.host[f] # Accessor THEN w ELSE AddCaller(w, f, caller)
      result == IF w.host[f] # Accessor THEN w.host[f] ELSE w1.val[f]
  IN [w1 EXCEPT !.lastRead = [f |-> f, caller |-> caller, result |-> result,
                              subscribed |-> w1.listeners[f] # w.listeners[f]]]

\* obj.f = v: the accessor's set function while a property intercepts the
\* field, an assignment to the plain field after its destruction.
WriteField(w, f, v) ==
  IF w.host[f] = Accessor THEN DefaultSetter(w, f, v)
  ELSE [w EXCEPT !.host[f] = v]

\* ProAct.Property.value(val, {}, queueName): a new object { v: val } whose
\* field v is made a property; lazyValue declares v static.
PropertyValue(w, m, v) ==
  [w EXCEPT !.made = @ \cup {m},
            !.val[m] = v,
            !.oldVal[m] = Nil,
            !.ptype[m] = TypeOf(v),
            !.pstate[m] = "ready",
            !.isStatic[m] = m \in Statics,
            !.host[m] = Accessor,
            !.accepted[m] = v,
            !.accum[m] = 0,
            !.listeners[m] = << >>,
            !.errListeners[m] = << >>,
            !.transforms[m] = << >>]

\* Property.prototype.map, filter and accumulate, with the transformation
\* t: prop = P.P.value(this.val, {}, this.queueName); t is added to prop
\* (mapping, filtering or accumulation); prop.into(this), which subscribes
\* the listener of prop to this (Actor.into); this.update().
PropertyDerive(w, f, m, t) ==
  LET w1 == PropertyValue(w, m, w.val[f])
      w2 == [w1 EXCEPT !.transforms[m] = << t >>]
  IN ActorUpdate(ActorOn(w2, f, MakeListener(m, 1)), f)

(* ------------------------------- Stream ------------------------------- *)

\* A defer that enqueues every listener with pushOnce.
StreamDeferOnce(w, s, l, ev) ==
  IF LProp(l) # NoQ THEN ActorDefer(w, s, l, ev)
  ELSE FlowPushOnce(w, NoQ, l, ev)

\* Stream.prototype.defer
StreamDefer(w, s, l, ev) ==
  IF LProp(l) # NoQ THEN ActorDefer(w, s, l, ev)
  ELSE FlowPush(w, NoQ, l, ev)

\* Actor.update(source, listeners) of a stream: the event is the source
\* (Stream.prototype.makeEvent); every listener given is deferred.
RECURSIVE StreamWillUpdate(_, _, _, _)
StreamWillUpdate(w, s, ls, ev) ==
  IF ls = << >> THEN w
  ELSE StreamWillUpdate(StreamDefer(w, s, Head(ls), ev), s, Tail(ls), ev)

StreamUpdate(w, s, ls, ev) == StreamWillUpdate(FlowEnter(w), s, ls, ev)

\* A triggerErr that calls update without the list of error listeners: the
\* error goes to the regular listeners.
StreamTriggerErrRegular(w, s, err) ==
  StreamUpdate(w, s, w.listeners[s], Event("err", NoQ, Undef, err))

\* Stream.prototype.triggerErr
StreamTriggerErr(w, s, err) ==
  StreamUpdate(w, s, w.errListeners[s], Event("err", NoQ, Undef, err))

\* A go without the test for the bad value.
StreamGoNoReject(w0, s, v, useTransformations) ==
  LET t == IF useTransformations
           THEN TransformAll(w0.transforms[s], w0.accum[s], v)
           ELSE [v |-> v, a |-> w0.accum[s]]
      event == t.v
      w == [w0 EXCEPT !.accum[s] = t.a]
  IN IF event = Thrown
     THEN StreamTriggerErr(w, s, BoomError)
     ELSE StreamUpdate(w, s, w.listeners[s], RawEvent(event))

\* Stream.prototype.go, called by Stream.prototype.trigger
StreamGo(w0, s, v, useTransformations) ==
  LET t == IF useTransformations
           THEN TransformAll(w0.transforms[s], w0.accum[s], v)
           ELSE [v |-> v, a |-> w0.accum[s]]
      event == t.v
      w == [w0 EXCEPT !.accum[s] = t.a]
  IN IF event = Thrown
     THEN StreamTriggerErr(w, s, BoomError)
     ELSE IF event = BadValue THEN w
     ELSE StreamUpdate(w, s, w.listeners[s], RawEvent(event))

\* new ProAct.Stream(source): a stream without listeners and
\* transformations; this.into(source) subscribes its listener to the
\* source when it is given one (Actor.into).
StreamNew(w, t, source) ==
  LET w1 == [w EXCEPT !.made = @ \cup {t},
                      !.accum[t] = 0,
                      !.listeners[t] = << >>,
                      !.errListeners[t] = << >>,
                      !.transforms[t] = << >>]
  IN IF source = NoQ THEN w1
     ELSE ActorOn(w1, source, StreamMakeListener(t))

\* Stream.prototype.map, filter and accumulate, with the transformation
\* tr: new P.S(this) with one transformation.
StreamDerive(w, s, t, tr) ==
  [StreamNew(w, t, s) EXCEPT !.transforms[t] = << tr >>]

\* Stream.prototype.merge: new P.S().into(this, stream)
StreamMerge(w, s, stream, u) ==
  ActorOn(ActorOn(StreamNew(w, u, NoQ), s, StreamMakeListener(u)),
          stream, StreamMakeListener(u))

(* ---------------------------- ProAct.Array ---------------------------- *)

\* ProAct.Array.Operations
OpSet == 0
OpAdd == 1
OpRemove == 2
OpSetLength == 3
OpReverse == 4
OpSort == 5
OpSplice == 6

\* ProAct.Array.Operations.isIndexOp
IsIndexOp(o) == o = OpSet \/ o = OpReverse \/ o = OpSort

Min(a, b) == IF a < b THEN a ELSE b
Max(a, b) == IF a > b THEN a ELSE b

\* Array.prototype.splice of the language on the backing storage: where it
\* starts, how many elements it removes, what it removes and what it leaves.
\* A delete count of Undef is a call without one.
NativeStart(a, index) ==
  IF index < 0 THEN Max(Len(a) + index, 0) ELSE Min(index, Len(a))

NativeCount(a, index, howMany) ==
  IF howMany = Undef THEN Len(a) - NativeStart(a, index)
  ELSE Min(Max(howMany, 0), Len(a) - NativeStart(a, index))

NativeSpliced(a, index, howMany) ==
  SubSeq(a, NativeStart(a, index) + 1,
         NativeStart(a, index) + NativeCount(a, index, howMany))

NativeRest(a, index, howMany, items) ==
  SubSeq(a, 1, NativeStart(a, index)) \o items \o
  SubSeq(a, NativeStart(a, index) + NativeCount(a, index, howMany) + 1,
         Len(a))

\* this.__pro__.makeEvent(null, [op, ind, oldVal, newVal]): a new event
\* object.  The identity of an event object shows only where a setter
\* compares it with the value its property holds, so the new object takes
\* the first identity that no value a property holds or a field keeps, and
\* no event a property or a stream listener is still to be called with,
\* carries.
ArrayMakeEvent(w, ev) ==
  LET pending == UNION {{w.queue[qn][i] : i \in DOMAIN w.queue[qn]} :
                        qn \in QNames}
      toSet == {e \in pending : /\ e.ev.type = "array"
                                /\ e.l \in PropListeners \cup StreamListeners}
      live == {w.val[f] : f \in Props} \cup {w.oldVal[f] : f \in Props}
                \cup {w.host[f] : f \in Props}
                \cup {e.ev.new : e \in pending}
                \cup {e.ev.old : e \in pending}
                \cup {EvObj(e.ev.id) : e \in toSet}
      free == {k \in 0 .. Cardinality(live) : EvObj(k) \notin live}
  IN [ev EXCEPT !.id = CHOOSE k \in free : \A j \in free : k <= j]

\* A willUpdateListeners that pushes where it should push once.
WillUpdateListenersPush(w, ls, ev) ==
  LET event == ArrayMakeEvent(w, ev)
      RECURSIVE EachPushed(_, _)
      EachPushed(v, rest) ==
        IF rest = << >> THEN v
        ELSE LET l == Head(rest)
                 w1 == FlowPush(v, NoQ, l, event)
                 w2 == IF LProp(l) # NoQ /\ l \notin w1.dead
                       THEN ActorUpdate(w1, LProp(l))
                       ELSE w1
             IN EachPushed(w2, Tail(rest))
  IN EachPushed(w, ls)

\* ProAct.Array.prototype.willUpdateListeners: one event is made; every
\* listener is pushed once with it, and a listener that has a property
\* has that property updated: the cell that made the listener, which
\* publishes nothing once it is destroyed.
WillUpdateListeners(w, ls, ev) ==
  LET event == ArrayMakeEvent(w, ev)
      RECURSIVE Each(_, _)
      Each(v, rest) ==
        IF rest = << >> THEN v
        ELSE LET l == Head(rest)
                 w1 == [FlowPushOnce(v, NoQ, l, event)
                          EXCEPT !.enqCells = v.cells]
                 w2 == IF LProp(l) # NoQ /\ l \notin w1.dead
                       THEN ActorUpdate(w1, LProp(l))
                       ELSE w1
             IN Each(w2, Tail(rest))
  IN Each(w, ls)

\* A willUpdateSplice that does not look at the two counts and notifies the
\* length and the index listeners of every splice that changes something.
WillUpdateSpliceBoth(w, index, spliced, newItems) ==
  IF Len(spliced) = 0 /\ Len(newItems) = 0 THEN w
  ELSE WillUpdateListeners(w, w.lenListeners \o w.idxListeners,
                           ArrEvent(OpSplice, index, spliced, newItems))

\* ProAct.Array.prototype.willUpdateSplice
WillUpdateSplice(w, index, spliced, newItems) ==
  IF Len(spliced) = 0 /\ Len(newItems) = 0 THEN w
  ELSE LET ls == IF Len(spliced) = Len(newItems) THEN w.idxListeners
                 ELSE IF Len(newItems) = 0 \/ Len(spliced) = 0
                 THEN w.lenListeners
                 ELSE w.lenListeners \o w.idxListeners
       IN WillUpdateListeners(w, ls,
                              ArrEvent(OpSplice, index, spliced, newItems))

\* An updateSplice that does not ask whether a run is open and always
\* opens one.
UpdateSpliceNested(w, index, spliced, newItems) ==
  WillUpdateSplice(FlowOpen(w), index, spliced, newItems)

\* ProAct.Array.prototype.updateSplice
UpdateSplice(w, index, spliced, newItems) ==
  IF IsRunning(w) THEN WillUpdateSplice(w, index, spliced, newItems)
  ELSE WillUpdateSplice(FlowEnter(w), index, spliced, newItems)

\* ProAct.Array.prototype.splice
ArraySplice(w, index, howMany, items) ==
  LET oldLn == Len(w.arr)
      spliced == NativeSpliced(w.arr, index, howMany)
      rest == NativeRest(w.arr, index, howMany, items)
      ln == Len(rest)
      ind == IF index = 0 - 1 THEN ln - index ELSE index
      many == IF howMany = Undef THEN ln - ind ELSE howMany
      n == Len(items)
      cs == IF n > many
            THEN w.cells \cup (oldLn .. (oldLn + (n - many) - 1))
            ELSE IF many > n
            THEN w.cells \ ((oldLn - (many - n)) .. (oldLn - 1))
            ELSE w.cells
  IN UpdateSplice([w EXCEPT !.arr = rest, !.cells = cs],
                  ind, spliced, items)

\* ArrayCore.on(listener), without actions: the listener is subscribed to
\* the index and to the length changes, once to each.
ArrayOn(w, l) ==
  [w EXCEPT
     !.idxListeners = IF \E i \in DOMAIN @ : @[i] = l THEN @
                      ELSE Append(@, l),
     !.lenListeners = IF \E i \in DOMAIN @ : @[i] = l THEN @
                      ELSE Append(@, l)]

\* ArrayCore.addCaller(): P.currentCaller, when it is set, is subscribed
\* to the index and to the length changes.  It is all that every, some,
\* forEach, reduce, reduceRight, indexOf, lastIndexOf, join, toLocaleString
\* and toString do to the array before they read its storage.
ArrayAddCaller(w, caller) ==
  IF caller # NoQ THEN ArrayOn(w, caller) ELSE w

\* slice, map, filter, pevery, psome, preduce, preduceRight, pindexOf,
\* plastindexOf, pjoin and concat: the derived array or value is built from
\* the storage and its listener is subscribed.  (concat with another
\* ProAct.Array subscribes a second listener, to that other array.)
ArrayDerive(w) == ArrayOn(w, "dv1")

\* ArrayCore.update(null, null, [op, ind, oldVal, newVal]): one event is
\* made, and the index listeners (for set, reverse, sort) or the length
\* listeners are deferred with it, in a run opened when none is open.
CoreUpdate(w, o, ind, oldVals, newVals) ==
  WillUpdate([FlowEnter(w) EXCEPT !.enqCells = w.cells], "arr",
             IF IsIndexOp(o) THEN w.idxListeners ELSE w.lenListeners,
             ArrayMakeEvent(FlowEnter(w),
                            ArrEvent(o, ind, oldVals, newVals)))

\* A push that publishes an update for every element it appends.
RECURSIVE ArrayPushEach(_, _)
ArrayPushEach(w, items) ==
  IF items = << >> THEN w
  ELSE LET index == Len(w.arr)
           w1 == [w EXCEPT !.arr = Append(@, Head(items)),
                           !.cells = @ \cup {index}]
       IN ArrayPushEach(CoreUpdate(w1, OpAdd, index, << >>, << Head(items) >>),
                        Tail(items))

\* ProAct.Array.prototype.push: the elements are appended one by one, each
\* with its index-cell, and then one update is published.
ArrayPush(w, items) ==
  LET ln == Len(w.arr)
      w1 == [w EXCEPT !.arr = @ \o items,
                      !.cells = @ \cup (ln .. (ln + Len(items) - 1))]
  IN CoreUpdate(w1, OpAdd, Len(w1.arr) - 1, << >>, items)

\* ProAct.Array.prototype.unshift
ArrayUnshift(w, items) ==
  LET ln == Len(w.arr)
      w1 == [w EXCEPT !.arr = items \o @,
                      !.cells = @ \cup (ln .. (ln + Len(items) - 1))]
  IN CoreUpdate(w1, OpAdd, 0, << >>, items)

\* ProAct.Array.prototype.pop
ArrayPop(w) ==
  IF Len(w.arr) = 0 THEN w
  ELSE LET popped == w.arr[Len(w.arr)]
           w1 == [w EXCEPT !.arr = SubSeq(@, 1, Len(@) - 1),
                           !.cells = @ \ {Len(w.arr) - 1}]
       IN CoreUpdate(w1, OpRemove, Len(w1.arr), << popped >>, << >>)

\* ProAct.Array.prototype.shift
ArrayShift(w) ==
  IF Len(w.arr) = 0 THEN w
  ELSE LET shifted == Head(w.arr)
           w1 == [w EXCEPT !.arr = Tail(@),
                           !.cells = @ \ {Len(w.arr) - 1}]
       IN CoreUpdate(w1, OpRemove, 0, << shifted >>, << >>)

\* Array.prototype.reverse and Array.prototype.sort of the language, the
\* sort without a comparison function.
NativeReverse(a) == [i \in 1 .. Len(a) |-> a[Len(a) + 1 - i]]

RECURSIVE NativeInsert(_, _)
NativeInsert(a, x) ==
  IF a = << >> THEN << x >>
  ELSE IF x < Head(a) THEN << x >> \o a
  ELSE << Head(a) >> \o NativeInsert(Tail(a), x)

RECURSIVE NativeSort(_)
NativeSort(a) ==
  IF a = << >> THEN a
  ELSE NativeInsert(NativeSort(SubSeq(a, 1, Len(a) - 1)), a[Len(a)])

\* ProAct.Array.prototype.reverse
ArrayReverse(w) ==
  IF Len(w.arr) = 0 THEN w
  ELSE CoreUpdate([w EXCEPT !.arr = NativeReverse(@)],
                  OpReverse, 0 - 1, << >>, << >>)

\* ProAct.Array.prototype.sort
ArraySort(w) ==
  IF Len(w.arr) = 0 THEN w
  ELSE CoreUpdate([w EXCEPT !.arr = NativeSort(@)],
                  OpSort, 0 - 1, << >>, << >>)

(* ------------------------- diff-based replacement --------------------- *)

\* ProAct.Utils.diff(old, new): the maximal contiguous regions in which the
\* two snapshots differ, position by position; the elements one snapshot
\* has beyond the end of the other are changed positions.  The result maps
\* the first index of every region to the old and the new elements in it.
DiffChanged(old, new, i) ==
  IF i < Min(Len(old), Len(new)) THEN old[i + 1] # new[i + 1]
  ELSE i < Max(Len(old), Len(new))

DiffStarts(old, new) ==
  {i \in 0 .. (Max(Len(old), Len(new)) - 1) :
     /\ DiffChanged(old, new, i)
     /\ i = 0 \/ ~DiffChanged(old, new, i - 1)}

DiffEnd(old, new, s) ==
  CHOOSE e \in s .. (Max(Len(old), Len(new)) - 1) :
    /\ \A j \in s .. e : DiffChanged(old, new, j)
    /\ ~DiffChanged(old, new, e + 1)

\* A diff that reports every changed position as a region of its own.
DiffPerPosition(old, new) ==
  [s \in {i \in 0 .. (Max(Len(old), Len(new)) - 1) : DiffChanged(old, new, i)} |->
     [o |-> SubSeq(old, s + 1, Min(s + 1, Len(old))),
      n |-> SubSeq(new, s + 1, Min(s + 1, Len(new)))]]

Diff(old, new) ==
  [s \in DiffStarts(old, new) |->
     [o |-> SubSeq(old, s + 1, Min(DiffEnd(old, new, s) + 1, Len(old))),
      n |-> SubSeq(new, s + 1, Min(DiffEnd(old, new, s) + 1, Len(new)))]]

\* for (j in diff): the keys of the diff, in ascending order; each key is a
\* string, and KeyIndex is the index a key names.
RECURSIVE ForInKeys(_)
ForInKeys(ks) ==
  IF ks = {} THEN << >>
  ELSE LET j == CHOOSE x \in ks : \A y \in ks : x <= y
       IN << j >> \o ForInKeys(ks \ {j})

KeyIndex(k) == CHOOSE j \in 0 .. 9 : ToString(j) = k

\* The flush of Flow.run, to its end: the run is closed when it returns.
RECURSIVE FlushAll(_)

\* updateSplice as updateByDiff sees it return: a run that updateSplice
\* opened has been flushed and closed by Flow.run.  The log keeps the
\* invocations of all the runs of the operation.
UpdateSpliceDone(w, index, spliced, newItems) ==
  IF IsRunning(w) THEN UpdateSplice(w, index, spliced, newItems)
  ELSE LET w1 == FlushAll(Advance(UpdateSplice(w, index, spliced, newItems)))
       IN [w1 EXCEPT !.log = w.log \o @]

\* ProAct.Array.prototype.updateByDiff(old): one updateSplice for every
\* region of the diff between the old snapshot and the storage.
RECURSIVE UpdateRegions(_, _, _)
UpdateRegions(w, d, keys) ==
  IF keys = << >> THEN w
  ELSE UpdateRegions(UpdateSpliceDone(w, ToString(Head(keys)),
                                      d[Head(keys)].o, d[Head(keys)].n),
                     d, Tail(keys))

UpdateByDiff(w, old) ==
  LET d == Diff(old, w.arr)
  IN UpdateRegions(w, d, ForInKeys(DOMAIN d))

\* ProAct.Array.reFilter(original, filtered, filterArgs), filtered the
\* array and result what the filter makes of the original: the storage is
\* replaced and the difference published.
ArrayReFilter(w, result) ==
  UpdateByDiff([w EXCEPT !.arr = result], w.arr)

\* The result of the filter of listener rf.
RfResult == << 2, 1, 2 >>

(* --------------------- invocations and the flush ---------------------- *)

\* A body the application hands to Flow.run: pushes on the default queue.
\* Each item is [once, l, v]: P.flow.pushOnce(l, [v]) or P.flow.push(l, [v]).
RECURSIVE RunBody(_, _)
RunBody(w, body) ==
  IF body = << >> THEN w
  ELSE LET b == Head(body)
           w1 == IF b.once THEN FlowPushOnce(w, NoQ, b.l, RawEvent(b.v))
                 ELSE FlowPush(w, NoQ, b.l, RawEvent(b.v))
       IN RunBody(w1, Tail(body))

\* Flow.run(body)
FlowRun(w, body) == RunBody(FlowEnter(w), body)

\* What calling listener l with event ev does.  The listener of a stream
\* triggers the stream with what it is called with: the event of an array
\* is passed on as the object it is.
Invoke(w, l, ev) ==
  CASE l \in PropListeners -> ListenerCall(w, l, ev)
    [] l \in StreamListeners ->
         StreamGo(w, LStream(l),
                  IF ev.type = "array" THEN EvObj(ev.id) ELSE ev.new, TRUE)
    [] l = "g1" -> WriteField(w, "X", ev.new)
    [] l = "kD" -> IF ev.new = 0 THEN ActorDestroy(w, "D") ELSE w
    [] l = "thr" -> [w EXCEPT !.threw = TRUE]
    [] l = "rr" -> FlowRun(w, << [once |-> TRUE, l |-> "f1", v |-> ev.new] >>)
    [] l = "spl" -> ArraySplice(w, 0, 1, << 1 >>)
    [] l = "rf" -> ArrayReFilter(w, RfResult)
    [] OTHER -> w

\* A flush that an exception aborts: the entries still pending are lost.
ExecuteAbort(w) ==
  LET e == Head(w.queue[w.cur])
      w1 == [w EXCEPT !.queue[w.cur] = Tail(@)]
      w2 == Invoke(w1, e.l, e.ev)
      w3 == IF w2.threw
            THEN [w2 EXCEPT !.queue = [qn \in QNames |-> << >>]]
            ELSE w2
  IN [w3 EXCEPT !.log = Append(w.log, [l |-> e.l, ev |-> e.ev,
                                       q |-> w.cur, exc |-> w2.threw]),
                !.threw = FALSE]

\* One invocation of the flush: the head of the queue being drained is
\* taken off and called; what it throws is caught, and the flush goes on.
Execute(w) ==
  LET e == Head(w.queue[w.cur])
      w1 == [w EXCEPT !.queue[w.cur] = Tail(@)]
      w2 == Invoke(w1, e.l, e.ev)
  IN [w2 EXCEPT !.log = Append(w.log, [l |-> e.l, ev |-> e.ev,
                                       q |-> w.cur, exc |-> w2.threw]),
                !.threw = FALSE]

FlushAll(w) ==
  IF w.running /\ w.cur # NoQ THEN FlushAll(Advance(Execute(w))) ELSE w

(* ------------------------------- actions ------------------------------ *)

Op(kind, node, arg, body) ==
  [kind |-> kind, node |-> node, arg |-> arg, body |-> body,
   ran |-> FALSE, threw |-> FALSE]

NoRead == [f |-> NoQ, caller |-> NoQ, result |-> Undef, subscribed |-> FALSE]

NoSet ==
  [f |-> NoQ, arg |-> Undef, tv |-> Undef, accepted |-> FALSE,
   reprob |-> FALSE, preVal |-> Undef, preOld |-> Undef,
   preType |-> TSimple, preStatic |-> FALSE,
   cellType |-> TSimple, cellHost |-> Accessor, postVal |-> Undef,
   postOld |-> Undef, cellVal |-> Undef, cellOld |-> Undef, enq |-> 0,
   threw |-> FALSE]

\* The program after its construction: B.into(A), C.into(A) with the
\* mapping inc, D.into(B, C), then the subscriptions of the application.
\* xs are the listeners of X.
Setup(as, xs) ==
  /\ val = [f \in Props |-> IF f \in Fields THEN 0 ELSE Undef]
  /\ oldVal = [f \in Props |-> IF f \in Fields THEN Nil ELSE Undef]
  /\ ptype = [f \in Props |-> TSimple]
  /\ pstate = [f \in Props |-> IF f \in Fields THEN "ready" ELSE "init"]
  /\ isStatic = [f \in Props |-> f \in Statics]
  /\ listeners = [n \in Nodes |->
       CASE n = "A" -> as
         [] n = "B" -> << MakeListener("D", 1) >>
         [] n = "C" -> << MakeListener("D", 2) >>
         [] n = "D" -> << "g1", "g2", "f2" >>
         [] n = "X" -> xs
         [] n = "S" -> << "f1", MakeListener("D", 3) >>
         [] OTHER -> << >> ]
  /\ errListeners = [n \in Nodes |-> IF n = "S" THEN << "f2" >> ELSE << >>]
  /\ transforms = [n \in Nodes |->
       CASE n = "C" -> << "inc" >>
         [] n = "X" -> << "even" >>
         [] n = "S" -> << "boom", "even" >>
         [] OTHER -> << >> ]
  /\ host = [f \in Props |-> IF f \in Fields THEN Accessor ELSE Undef]
  /\ table = Fields
  /\ dead = {}
  /\ dval = [f \in Props |-> Undef]
  /\ dold = [f \in Props |-> Undef]
  /\ made = {}
  /\ accum = [n \in Nodes |-> 0]
  /\ arr = << >>
  /\ cells = {}
  /\ enqCells = {}
  /\ idxListeners = << "f1", "g2" >>
  /\ lenListeners = << "f1", "f2" >>
  /\ queue = [qn \in QNames |-> << >>]
  /\ qorder = << DefaultQ >>
  /\ running = FALSE
  /\ cur = NoQ
  /\ opened = 0
  /\ npush = 0
  /\ napp = 0
  /\ log = << >>
  /\ accepted = [f \in Props |-> IF f \in Fields THEN 0 ELSE Undef]
  /\ threw = FALSE
  /\ lastSet = NoSet
  /\ lastRead = NoRead
  /\ op = Op("init", NoQ, Undef, << >>)

\* B and C listen to A, D listens to B and C.
Diamond == << MakeListener("B", 1), MakeListener("C", 1) >>

\* D listens to A too, and subscribed to it first: D is reachable from A
\* by a path of one step and by two paths of two steps.
Uneven == << MakeListener("D", 1), MakeListener("B", 1),
             MakeListener("C", 1) >>

Init == Setup(Diamond, << "f1", "thr", "rr" >>)

InitUneven == Setup(Uneven, << "f1", "thr", "rr" >>)

InitArray == Setup(Diamond, << "rr", "spl" >>)

\* f1 listens to the stream S and to the property of X.
InitStream == Setup(Diamond, << "f1" >>)

\* The end of a call made by the application while no run is open: the
\* run the call opened, if any, is flushed from here on.
Settle(w, o) ==
  Becomes(Advance([w EXCEPT
    !.op = [o EXCEPT !.ran = w.running, !.threw = w.threw],
    !.threw = FALSE]))

\* obj.A = v, obj.X = v
SetField(f, v) ==
  /\ ~running
  /\ Settle(WriteField(World, f, v), Op("set", f, v, << >>))

\* S.trigger(v)
Trigger(s, v) ==
  /\ ~running
  /\ Settle(StreamGo(World, s, v, TRUE), Op("trigger", s, v, << >>))

\* S.triggerErr(v)
TriggerErr(s, v) ==
  /\ ~running
  /\ Settle(StreamTriggerErr(World, s, v), Op("triggerErr", s, v, << >>))

\* p.destroy(), p the property of field f.  The operation records whether
\* the property was destroyed before the call.
Destroy(f) ==
  /\ ~running
  /\ Settle(ActorDestroy(World, f),
            Op("destroy", f, IF pstate[f] = "destroyed" THEN 1 ELSE 0, << >>))

\* P.currentCaller = caller; obj.f; P.currentCaller = null
Read(f, caller) ==
  /\ ~running
  /\ Settle(GetField(World, f, caller), Op("read", f, Undef, << >>))

\* p.on(l) and p.off(l), p the property of field f
On(f, l) ==
  /\ ~running
  /\ Settle(ActorOn(World, f, l), Op("on", f, Undef, << >>))

Off(f, l) ==
  /\ ~running
  /\ Settle(ActorOff(World, f, l), Op("off", f, Undef, << >>))

\* P.flow.run(function () { ...pushes... }): the i-th push of the body
\* passes i as its argument.
BodyItems == [once : BOOLEAN, l : {"f1", "f2"}]
Bodies == UNION {[1 .. n -> BodyItems] : n \in 1 .. MaxBody}
Numbered(body) ==
  [i \in 1 .. Len(body) |-> [once |-> body[i].once, l |-> body[i].l, v |-> i]]

Run(body) ==
  /\ ~running
  /\ Settle(FlowRun(World, Numbered(body)), Op("run", NoQ, Undef, body))

\* arr.splice(index, howMany, items...), arr.splice(index)
ItemVals == {1}
SpliceItems == UNION {[1 .. n -> ItemVals] : n \in 0 .. 2}

Splice(index, howMany, items) ==
  /\ ~running
  /\ howMany = Undef => items = << >>
  /\ Len(NativeRest(arr, index, howMany, items)) <= MaxArr
  /\ Settle(ArraySplice(World, index, howMany, items),
            Op("splice", "arr", index, items))

\* arr.push(...items), arr.unshift(...items), arr.pop(), arr.shift(),
\* arr.reverse(), arr.sort()
SeqItems == {<< 1 >>, << 2 >>, << 2, 1 >>}

Push(items) ==
  /\ ~running
  /\ Len(arr) + Len(items) <= MaxArr
  /\ Settle(ArrayPush(World, items), Op("push", "arr", Undef, items))

Unshift(items) ==
  /\ ~running
  /\ Len(arr) + Len(items) <= MaxArr
  /\ Settle(ArrayUnshift(World, items), Op("unshift", "arr", Undef, items))

Pop ==
  /\ ~running
  /\ Settle(ArrayPop(World), Op("pop", "arr", Undef, << >>))

Shift ==
  /\ ~running
  /\ Settle(ArrayShift(World), Op("shift", "arr", Undef, << >>))

Reverse ==
  /\ ~running
  /\ Settle(ArrayReverse(World), Op("reverse", "arr", Undef, << >>))

Sort ==
  /\ ~running
  /\ Settle(ArraySort(World), Op("sort", "arr", Undef, << >>))

\* P.A.reFilter(original, arr, filterArgs), with the result of the filter
\* as the input.  The values of the elements: two, and the four more of the
\* snapshots [1, 2, 3, 4] and [1, 9, 9, 4].
MaxSnap == 3
SnapVals == {1, 2}
Snapshots ==
  UNION {[1 .. n -> SnapVals] : n \in 0 .. MaxSnap}
    \cup {<< 1, 2, 3, 4 >>, << 1, 9, 9, 4 >>}

ReFilter(result) ==
  /\ ~running
  /\ Settle(ArrayReFilter([World EXCEPT !.log = << >>], result),
            Op("reFilter", "arr", Undef, result))

\* P.flow.run(function () { s.trigger(v1, t1); s.trigger(v2, t2); ... }):
\* each item of the body is a value and the useTransformations flag.  Of
\* the two values the filter of S accepts one and rejects the other.
MaxTrig == 2
TrigVals == {0, 1}
TrigItems == [v : TrigVals, tr : BOOLEAN]
TrigBodies == UNION {[1 .. n -> TrigItems] : n \in 1 .. MaxTrig}

RECURSIVE TriggerEach(_, _, _)
TriggerEach(w, s, items) ==
  IF items = << >> THEN w
  ELSE TriggerEach(StreamGo(w, s, Head(items).v, Head(items).tr), s,
                   Tail(items))

RunTriggers(s, items) ==
  /\ ~running
  /\ Settle(TriggerEach(FlowEnter(World), s, items),
            Op("runTriggers", s, Undef, items))

\* p.map(inc), p.filter(even), p.accumulate(0, sum), p the property of
\* field f: the derived property is M, and the application derives one.
PropMap(f) ==
  /\ ~running
  /\ "M" \notin made
  /\ Settle(PropertyDerive(World, f, "M", "inc"),
            Op("map", f, Undef, << >>))

PropFilter(f) ==
  /\ ~running
  /\ "M" \notin made
  /\ Settle(PropertyDerive(World, f, "M", "even"),
            Op("filter", f, Undef, << >>))

PropAccumulate(f) ==
  /\ ~running
  /\ "M" \notin made
  /\ Settle(PropertyDerive(World, f, "M", "sum"),
            Op("accumulate", f, Undef, << >>))

\* s.map(inc), s.filter(even), s.accumulate(0, sum): the derived stream
\* is T.  s.merge(stream): the merged stream is U.
StrMap(s) ==
  /\ ~running
  /\ "T" \notin made
  /\ Settle(StreamDerive(World, s, "T", "inc"), Op("map", s, Undef, << >>))

StrFilter(s) ==
  /\ ~running
  /\ "T" \notin made
  /\ Settle(StreamDerive(World, s, "T", "even"),
            Op("filter", s, Undef, << >>))

StrAccumulate(s) ==
  /\ ~running
  /\ "T" \notin made
  /\ Settle(StreamDerive(World, s, "T", "sum"),
            Op("accumulate", s, Undef, << >>))

StrMerge(s, stream) ==
  /\ ~running
  /\ "U" \notin made
  /\ stream \in made \cup {"S"}
  /\ Settle(StreamMerge(World, s, stream, "U"),
            Op("merge", s, Undef, << >>))

\* A function of the array that derives an array or a value from it:
\* concat, pevery, psome, filter, map, preduce, preduceRight, pindexOf,
\* plastindexOf, pjoin or slice.  They do the same to the array; the
\* application derives one array or value, whose listener is dv1.
ArrDerive ==
  /\ ~running
  /\ \A i \in DOMAIN idxListeners : idxListeners[i] # "dv1"
  /\ Settle(ArrayDerive(World), Op("derive", "arr", Undef, << >>))

\* A function of the array that reads it: every, some, forEach, reduce,
\* reduceRight, indexOf, lastIndexOf, join, toLocaleString or toString,
\* called while P.currentCaller is empty or is the listener of the
\* property of D (the property is being computed from the array).
ArrayCallers == {NoQ, MakeListener("D", 1)}

ArrQuery(caller) ==
  /\ ~running
  /\ Settle(ArrayAddCaller(World, caller),
            Op("query", "arr", Undef, << >>))

\* The flush executes its next invocation.
FlushStep ==
  /\ running
  /\ cur # NoQ
  /\ Becomes(Advance(Execute(World)))

\* Properties and the stream.
Next ==
  \/ \E v \in Vals : SetField("A", v)
  \/ \E v \in Vals \cup {Nil} : SetField("X", v)
  \/ \E v \in Vals : Trigger("S", v)
  \/ \E v \in Vals : TriggerErr("S", v)
  \/ FlushStep

Spec == Init /\ [][Next]_vars

SpecUneven == InitUneven /\ [][Next]_vars

\* Runs the application opens on the flow itself, and splices at the
\* head of the array that remove elements it holds.
NextFlow ==
  \/ \E body \in Bodies : Run(body)
  \/ \E h \in 0 .. Len(arr) : \E items \in SpliceItems :
       Splice(0, h, items)
  \/ FlushStep

SpecFlow == Init /\ [][NextFlow]_vars

\* Runs in which the application triggers the stream several times, and
\* the streams it derives from S.
NextStream ==
  \/ \E items \in TrigBodies : RunTriggers("S", items)
  \/ StrMap("S") \/ StrFilter("S") \/ StrAccumulate("S")
  \/ \E stream \in {"S", "T"} : StrMerge("S", stream)
  \/ FlushStep

SpecStream == InitStream /\ [][NextStream]_vars

\* The array, and a property whose listeners splice it and open runs.
NextArray ==
  \/ \E v \in Vals : SetField("X", v)
  \/ \E i \in (0 - 1) .. Len(arr) : \E h \in {Undef, 0, 1, 2} :
       \E items \in SpliceItems : Splice(i, h, items)
  \/ FlushStep

SpecArray == InitArray /\ [][NextArray]_vars

\* Sets of A to values of every type: numbers, null, an array, an
\* object, a function.  The listeners of B, C and D hand them on to the
\* statically typed B and to C, D and X.
TypeVals == Vals \cup {Nil, ArrVal, ObjVal, FunVal}

InitType == Setup(Diamond, << "f1" >>)

NextType ==
  \/ \E v \in TypeVals : SetField("A", v)
  \/ FlushStep

SpecType == InitType /\ [][NextType]_vars

\* Derived properties: the application derives M from the property of A,
\* which has no other listener, and sets A to values of every type.
InitDerived == Setup(<< >>, << "f1" >>)

NextDerived ==
  \/ \E v \in TypeVals : SetField("A", v)
  \/ PropMap("A") \/ PropFilter("A") \/ PropAccumulate("A")
  \/ FlushStep

SpecDerived == InitDerived /\ [][NextDerived]_vars

\* The life of properties: A has the listener kD, which destroys D in the
\* run of a set of A to 0; the application destroys D and X, and reads
\* and writes the field X before and after.
InitLife ==
  Setup(<< MakeListener("B", 1), MakeListener("C", 1), "kD" >>, << "f1" >>)

NextLife ==
  \/ \E v \in Vals : SetField("A", v)
  \/ \E v \in Vals : SetField("X", v)
  \/ \E f \in {"D", "X"} : Destroy(f)
  \/ Read("X", "f1")
  \/ FlushStep

SpecLife == InitLife /\ [][NextLife]_vars

\* The mutating operations of the array, with one and with two elements.
NextSeq ==
  \/ \E items \in SeqItems : Push(items)
  \/ \E items \in SeqItems : Unshift(items)
  \/ Pop
  \/ Shift
  \/ Reverse
  \/ Sort
  \/ \E i \in 0 .. 1 : \E h \in 0 .. Len(arr) : \E items \in SeqItems \cup {<< >>} :
       Splice(i, h, items)
  \/ ArrDerive
  \/ \E caller \in ArrayCallers : ArrQuery(caller)
  \/ FlushStep

SpecSeq == InitArray /\ [][NextSeq]_vars

\* The array replaced by the results of a filter; the listener rf of X
\* replaces it inside a run.
InitDiff == Setup(Diamond, << "rf" >>)

NextDiff ==
  \/ \E result \in Snapshots : ReFilter(result)
  \/ SetField("X", 2) \/ SetField("X", 0)
  \/ FlushStep

SpecDiff == InitDiff /\ [][NextDiff]_vars

\* Dependencies: the fields A and B of the diamond are read while the
\* current-caller slot is empty, holds B's own listener or holds the
\* function f2; listeners are subscribed to B and f2 is unsubscribed by hand.
Callers == {NoQ, MakeListener("B", 1), "f2"}

InitDeps == Setup(Diamond, << "f1" >>)

NextDeps ==
  \/ \E f \in {"A", "B"} : \E c \in Callers : Read(f, c)
  \/ \E l \in Callers \ {NoQ} : On("B", l)
  \/ \E f \in {"A", "B"} : Off(f, "f2")
  \/ \E v \in Vals : SetField("A", v)
  \/ FlushStep

SpecDeps == InitDeps /\ [][NextDeps]_vars

(* ------------------------------ properties ---------------------------- *)

\* The invocations of listener l, and of the listener of property f, that
\* the run's flush has executed.
Calls(l) == {i \in DOMAIN log : log[i].l = l}
CallsOf(f) == {i \in DOMAIN log : LProp(log[i].l) = f}
After(i, l) == \E j \in DOMAIN log : j > i /\ log[j].l = l
Pending(l) ==
  /\ running
  /\ \E qn \in QNames : \E i \in DOMAIN queue[qn] : queue[qn][i].l = l
AllEmpty == \A qn \in QNames : queue[qn] = << >>
PendingCount ==
  Len(queue[DefaultQ]) + Len(queue["q1"]) + Len(queue["q2"])

\* The run was opened by an accepted obj.A = v made while no run was open.
SetAOpen == op.kind = "set" /\ op.node = "A" /\ op.ran

\* The value the listener of property f derives from A's value.
Derived(f) == ActorTransform(transforms[f], val["A"])

\* C1: glitch-free diamond.  In the run of an accepted update of A (B and
\* C listen to A, D listens to B and C) the listener of D is invoked at
\* most once, exactly once when the run has closed, and in the state in
\* which the flush is about to invoke it B and C hold the values derived
\* from A's new value.
C1_GlitchFreeDiamond ==
  SetAOpen =>
    /\ Cardinality(CallsOf("D")) <= 1
    /\ ~running => Cardinality(CallsOf("D")) = 1
    /\ (running /\ cur # NoQ /\ LProp(Head(queue[cur]).l) = "D") =>
         /\ val["B"] = Derived("B")
         /\ val["C"] = Derived("C")

C1_Witness ==
  /\ SetAOpen
  /\ ~running
  /\ Cardinality(CallsOf("D")) = 1
  /\ Cardinality(Calls("lB")) = 1 /\ Cardinality(Calls("lC")) = 1
  /\ val["B"] = val["A"]
  /\ val["C"] = (val["A"] + 1) % (MaxVal + 1)

\* C5: general at-most-once delivery.  In the run of an accepted update
\* of A the listener of a property that depends on A is invoked at most
\* once, whatever the lengths of the paths that lead from A to it.
C5_AtMostOnce ==
  SetAOpen => \A f \in Fields : Cardinality(CallsOf(f)) <= 1

\* The pushes of listener l in the body of the run the application opened.
Pushes(l) == {i \in DOMAIN op.body : op.body[i].l = l}
OnceOnly(l) == Pushes(l) # {} /\ \A i \in Pushes(l) : op.body[i].once
LastPush(l) == CHOOSE i \in Pushes(l) : \A j \in Pushes(l) : j <= i

\* C2: push-once idempotence.  A listener that the body of a run enqueued
\* only with pushOnce, N >= 1 times, has been executed exactly once when
\* the run has closed, with the argument of its last enqueue; a listener
\* that a splice enqueues once per listener list it is on (it is on two
\* for a splice that removes and inserts different numbers of elements)
\* has been executed exactly once when the run of the splice has closed.
C2_PushOnceIdempotent ==
  /\ (~running /\ op.kind = "run") =>
       \A l \in {"f1", "f2"} :
         OnceOnly(l) =>
           /\ Cardinality(Calls(l)) = 1
           /\ \A i \in Calls(l) : log[i].ev.new = LastPush(l)
  /\ (~running /\ op.kind = "splice" /\ npush > 0) =>
       /\ Cardinality(Calls("f1")) = 1
       /\ \A l \in Listeners : Cardinality(Calls(l)) <= 1

C2_Witness ==
  /\ ~running
  /\ op.kind = "run"
  /\ OnceOnly("f1")
  /\ Cardinality(Pushes("f1")) = 3
  /\ Cardinality(Calls("f1")) = 1

\* C3: run reentrancy.  A run opened while a run is open allocates no
\* second queue-set, and the invocation that the body of a nested run
\* (listener rr) or a splice made by a listener (spl) enqueues is pending
\* in the queues of the open run or has been executed by its flush.
C3_RunReentrancy ==
  /\ opened <= 1
  /\ \A i \in DOMAIN log :
       log[i].l \in {"rr", "spl"} => Pending("f1") \/ After(i, "f1")

C3_Witness ==
  /\ ~running
  /\ \E i \in DOMAIN log : log[i].l = "rr" /\ After(i, "f1")
  /\ \E i \in DOMAIN log :
       /\ log[i].l = "spl"
       /\ \E j \in DOMAIN log :
            j > i /\ log[j].l = "f1" /\ log[j].ev.type = "array"

\* C4: run to fixpoint.  When no run is open every queue is empty, and
\* every entry appended in the run is pending or has been executed: none
\* is dropped, none is executed twice.
C4_RunToFixpoint ==
  /\ ~running => AllEmpty
  /\ Len(log) + PendingCount = napp

C4_Witness ==
  /\ ~running
  /\ \E i \in DOMAIN log : \E j \in DOMAIN log :
       i < j /\ log[i].q = "q1" /\ log[j].q = DefaultQ

\* The queues registered before queue qn hold no entry.
EarlierEmpty(qn) ==
  \A i \in DOMAIN qorder : \A j \in DOMAIN qorder :
    (qorder[j] = qn /\ i < j) => queue[qorder[i]] = << >>

\* C6, as claimed: no invocation of a named queue executes while the
\* default queue or an earlier-registered named queue holds an entry.
C6_NoEarlierPending == (running /\ cur # NoQ) => EarlierEmpty(cur)

\* C6, amended: the default queue is the first of the order; the flush
\* turns to a queue only when every queue registered before it is empty,
\* and leaves a queue only when it has drained it.
C6_FlushOrder ==
  [][ /\ qorder'[1] = DefaultQ
      /\ (cur' # NoQ /\ cur' # cur) =>
           \A i \in DOMAIN qorder' : \A j \in DOMAIN qorder' :
             (qorder'[j] = cur' /\ i < j) => queue'[qorder'[i]] = << >>
      /\ (cur # NoQ /\ cur' # cur) => queue'[cur] = << >> ]_vars

C6_Witness ==
  /\ running
  /\ cur = "q1"
  /\ queue[DefaultQ] # << >>
  /\ \E i \in DOMAIN log : log[i].q = "q1"

\* C7: failure isolation.  An exception of an invocation is caught by the
\* flush: the invocations enqueued with the failing one are still pending
\* or executed after it, no exception leaves the flush, and the run
\* closes with empty queues, the flow ready for the next run.
C7_FailureIsolation ==
  /\ threw = FALSE
  /\ \A i \in DOMAIN log :
       log[i].l = "thr" =>
         /\ log[i].exc
         /\ Pending("rr") \/ After(i, "rr")
  /\ ~running => (AllEmpty /\ cur = NoQ)

C7_Witness ==
  /\ ~running
  /\ AllEmpty
  /\ \E i \in DOMAIN log : log[i].exc /\ After(i, "rr") /\ After(i, "f2")

\* C8: equality short-circuit.  A setter call whose transformed value is
\* the current value pushes nothing and leaves val and oldVal unchanged.
C8_EqualityShortCircuit ==
  (lastSet.f # NoQ /\ lastSet.tv = lastSet.preVal) =>
    /\ lastSet.enq = 0
    /\ lastSet.postVal = lastSet.preVal
    /\ lastSet.postOld = lastSet.preOld
    /\ ~lastSet.accepted

C8_Witness ==
  /\ lastSet.f = "C"
  /\ lastSet.tv = lastSet.preVal
  /\ lastSet.arg # lastSet.tv
  /\ val["C"] = lastSet.preVal

\* C9: rejected values do not propagate.  A setter call whose value the
\* transformations reject leaves val and oldVal unchanged, pushes nothing
\* and throws nothing; a trigger whose value they reject opens no run,
\* pushes nothing and throws nothing.
C9_RejectedNoPropagation ==
  /\ (lastSet.f # NoQ /\ lastSet.tv = BadValue) =>
       /\ lastSet.enq = 0
       /\ lastSet.postVal = lastSet.preVal
       /\ lastSet.postOld = lastSet.preOld
       /\ ~lastSet.threw
  /\ (op.kind = "trigger"
        /\ ActorTransform(transforms[op.node], op.arg) = BadValue) =>
       /\ ~op.ran
       /\ ~op.threw
       /\ ~running
       /\ AllEmpty

C9_Witness ==
  /\ op.kind = "trigger"
  /\ ActorTransform(transforms[op.node], op.arg) = BadValue
  /\ lastSet.f = "X"
  /\ lastSet.tv = BadValue
  /\ lastSet.arg \in Vals

\* C10, as claimed: after every accepted set the property's val is the
\* transformed new value and its oldVal the value held before the set.
C10_ValueAfterSet ==
  lastSet.accepted =>
    /\ lastSet.postVal = lastSet.tv
    /\ lastSet.postOld = lastSet.preVal

\* C10, amended: that holds unless the set changes the value's type and
\* the cell is rebuilt; then the cell is destroyed, val and oldVal
\* undefined, and the new cell of the field holds the new value with
\* oldVal null.  The cell bound to a field always holds the last value
\* the field's setter accepted.
C10_ValueInvariant ==
  /\ (lastSet.accepted /\ ~lastSet.reprob) =>
       /\ lastSet.postVal = lastSet.tv
       /\ lastSet.postOld = lastSet.preVal
  /\ lastSet.reprob =>
       /\ lastSet.accepted
       /\ lastSet.postVal = Undef /\ lastSet.postOld = Undef
       /\ lastSet.cellVal = lastSet.tv /\ lastSet.cellOld = Nil
  /\ \A f \in Fields : val[f] = accepted[f]

C10_Witness ==
  /\ lastSet.accepted
  /\ ~lastSet.reprob
  /\ lastSet.f = "C"
  /\ lastSet.arg # lastSet.tv
  /\ lastSet.preVal \in Vals
  /\ oldVal["C"] = lastSet.preVal
  /\ val["C"] = lastSet.tv

\* The last setter call stored a value of another type than the cell's.
TypeChanged ==
  /\ lastSet.f # NoQ
  /\ lastSet.accepted
  /\ TypeOf(lastSet.tv) # lastSet.preType

\* C11: type-driven rebuild.  A set that gives a property that is neither
\* auto nor statically typed a value of another type than its own
\* destroys the cell (its val and oldVal are undefined afterwards) and
\* binds the field to a new cell of the new value's type that holds the
\* new value; no error is raised.
C11_TypeDrivenRebuild ==
  (TypeChanged /\ lastSet.preType # TAuto /\ ~lastSet.preStatic) =>
    /\ lastSet.reprob
    /\ ~lastSet.threw
    /\ lastSet.postVal = Undef /\ lastSet.postOld = Undef
    /\ lastSet.cellHost = Accessor
    /\ lastSet.cellType = TypeOf(lastSet.tv)
    /\ lastSet.cellVal = lastSet.tv

C11_Witness ==
  /\ TypeChanged
  /\ lastSet.f = "A"
  /\ lastSet.preType = TSimple
  /\ lastSet.tv = ArrVal
  /\ ptype["A"] = TArray
  /\ val["A"] = ArrVal
  /\ Pending("lB") /\ Pending("lC")
  /\ table = Fields

\* C12: statically typed cells are updated in place.  A set that gives a
\* statically typed property a value of another type than its own raises
\* no error, rebuilds nothing, leaves the new value in the same cell and
\* calls update, which defers every listener of the property.
C12_StaticInPlace ==
  (TypeChanged /\ lastSet.preStatic) =>
    /\ ~lastSet.threw
    /\ ~lastSet.reprob
    /\ lastSet.cellVal = lastSet.tv
    /\ lastSet.cellOld = lastSet.preVal
    /\ lastSet.enq = Len(listeners[lastSet.f])

\* The step is an operation kind of the application on a field whose
\* property is destroyed.
OnDestroyed(kind) ==
  /\ ~running
  /\ op'.kind = kind
  /\ op'.node \in Fields
  /\ pstate[op'.node] = "destroyed"

\* C13: destroying a property removes it from the host's property table and
\* makes the field a plain field holding the property's last value; later
\* reads and writes of the field subscribe no listener, enqueue no
\* notification and open no run, and a write lands in the plain field.
C13_DestroyRestoresField ==
  [][ /\ \A f \in Fields :
           (pstate[f] # "destroyed" /\ pstate'[f] = "destroyed") =>
             /\ f \notin table'
             /\ host[f] = Accessor
             /\ host'[f] = val[f]
      /\ \A f \in Fields :
           pstate'[f] = "destroyed" =>
             /\ f \notin table'
             /\ host'[f] # Accessor
             /\ listeners'[f] = << >>
      /\ (OnDestroyed("set") \/ OnDestroyed("read")) =>
           /\ listeners' = listeners
           /\ queue' = queue
           /\ ~running'
           /\ op'.kind = "set" => host'[op'.node] = op'.arg
           /\ op'.kind = "read" => /\ lastRead'.result = host[op'.node]
                                   /\ ~lastRead'.subscribed
                                   /\ host' = host ]_vars

C13_Witness ==
  /\ pstate["X"] = "destroyed"
  /\ "X" \notin table
  /\ op.kind = "set" /\ op.node = "X" /\ op.arg = 1
  /\ host["X"] = 1
  /\ lastRead.f = "X" /\ lastRead.result = 2
  /\ ~running

\* C14: destroying a property that is already destroyed raises no error and
\* leaves the property's state, the host field and the property table as the
\* first destroy left them.
C14_DestroyIdempotent ==
  [][ OnDestroyed("destroy") =>
        /\ ~op'.threw
        /\ ~running'
        /\ UNCHANGED << pstate, host, table, val, oldVal, ptype, isStatic,
                        listeners, errListeners, transforms, dead, queue >> ]_vars

C14_Witness ==
  /\ op.kind = "destroy" /\ op.node = "X" /\ op.arg = 1
  /\ pstate["X"] = "destroyed"
  /\ host["X"] = 2
  /\ ~op.threw

\* The listener of D ran after kD in the log of the current run.
DeadCalls ==
  {i \in DOMAIN log : log[i].l = MakeListener("D", 1)
                      /\ \E j \in 1 .. (i - 1) : log[j].l = "kD" /\ log[j].ev.new = 0}

\* C15: an invocation of a property's listener that was enqueued before the
\* property was destroyed in the same run is executed as a no-op: it raises
\* no error and changes no value; and the destroyed property's listener is
\* not enqueued after the destroy.
C15_DestroyDuringRun ==
  /\ \A i \in DeadCalls : ~log[i].exc
  /\ (pstate["D"] = "destroyed" /\ DeadCalls # {}) => ~Pending(MakeListener("D", 1))

\* The listener l is subscribed to the node n.
Subscribed(ls, l) == \E i \in DOMAIN ls : ls[i] = l

\* C16: a read of a field through the property's getter returns the current
\* value and changes no value; with a listener of another owner in the
\* current-caller slot the listener is subscribed to the property afterwards
\* and no other subscription changes; with the slot empty the listeners are
\* unchanged.
C16_ImplicitDependency ==
  [][ (~running /\ op'.kind = "read" /\ host[op'.node] = Accessor) =>
        LET f == op'.node
            c == lastRead'.caller
        IN /\ lastRead'.f = f
           /\ lastRead'.result = val[f]
           /\ val' = val
           /\ \A g \in Fields \ {f} : listeners'[g] = listeners[g]
           /\ c = NoQ => listeners' = listeners
           /\ (c # NoQ /\ LProp(c) # f) =>
                /\ Subscribed(listeners'[f], c)
                /\ listeners'[f] = IF Subscribed(listeners[f], c)
                                   THEN listeners[f]
                                   ELSE Append(listeners[f], c) ]_vars

C16_Witness ==
  /\ op.kind = "read" /\ op.node = "A"
  /\ lastRead.caller = "f2" /\ lastRead.subscribed
  /\ lastRead.result = 1
  /\ listeners["A"] = << MakeListener("B", 1), MakeListener("C", 1), "f2" >>

\* C17: no listener is twice among a node's listeners, and the listener of
\* a property is never among the listeners of that property; a read of a
\* property's field with that property's listener as the current caller
\* subscribes nothing and raises nothing.
C17_ListenerSet ==
  /\ \A n \in Fields \cup Streams :
       \A i, j \in DOMAIN listeners[n] :
         listeners[n][i] = listeners[n][j] => i = j
  /\ \A f \in Fields : \A l \in PropListeners :
       (LProp(l) = f /\ l \notin dead) => ~Subscribed(listeners[f], l)
  /\ (op.kind = "read" /\ lastRead.caller # NoQ
        /\ LProp(lastRead.caller) = op.node) =>
       ~op.threw /\ ~lastRead.subscribed

C17_Witness ==
  /\ op.kind = "read" /\ op.node = "B"
  /\ lastRead.caller = MakeListener("B", 1)
  /\ ~lastRead.subscribed
  /\ Subscribed(listeners["A"], MakeListener("B", 1))
  /\ Subscribed(listeners["B"], "f2")

\* The invocations of the current run: those executed and those pending.
Delivered ==
  {[l |-> log[i].l, ev |-> log[i].ev] : i \in DOMAIN log}
    \cup UNION {{[l |-> queue[qn][i].l, ev |-> queue[qn][i].ev] :
                   i \in DOMAIN queue[qn]} : qn \in QNames}

\* The last operation published an error on the stream S: a triggerErr, or a
\* trigger whose transformation threw.
ErrorPublished ==
  /\ op.node = "S"
  /\ \/ op.kind = "triggerErr"
     \/ op.kind = "trigger" /\ ActorTransform(transforms["S"], op.arg) = Thrown

\* The last operation published a value on the stream S.
ValuePublished ==
  /\ op.node = "S" /\ op.kind = "trigger"
  /\ ActorTransform(transforms["S"], op.arg) \notin {Thrown, BadValue}

\* The run of the last operation has just been opened: nothing has been
\* executed yet.
JustOpened == running /\ op.ran /\ log = << >>

\* C18: an error published on a stream (the argument of triggerErr, or the
\* exception a transformation throws during trigger) is delivered to every
\* error listener of the stream and to no regular listener; a value that passed the
\* transformations is delivered to every regular listener and to no error
\* listener.
C18_ErrorChannel ==
  /\ (op.node = "S" /\ op.kind \in {"trigger", "triggerErr"} /\ op.ran) =>
       \A d \in Delivered :
         /\ d.ev.type = "err" =>
              /\ ErrorPublished
              /\ Subscribed(errListeners["S"], d.l)
              /\ ~Subscribed(listeners["S"], d.l)
         /\ d.ev.type = "raw" =>
              /\ ValuePublished
              /\ Subscribed(listeners["S"], d.l)
              /\ ~Subscribed(errListeners["S"], d.l)
  /\ (ErrorPublished /\ JustOpened) =>
       /\ queue[DefaultQ] =
            [i \in DOMAIN errListeners["S"] |->
               Entry(errListeners["S"][i],
                     Event("err", NoQ, Undef,
                           IF op.kind = "triggerErr" THEN op.arg
                           ELSE BoomError))]
       /\ \A qn \in QNames \ {DefaultQ} : queue[qn] = << >>
  /\ (ValuePublished /\ JustOpened) =>
       /\ queue[DefaultQ] =
            [i \in DOMAIN listeners["S"] |->
               Entry(listeners["S"][i],
                     RawEvent(ActorTransform(transforms["S"], op.arg)))]
       /\ \A qn \in QNames \ {DefaultQ} : queue[qn] = << >>
  /\ (ErrorPublished \/ ValuePublished) => op.ran

C18_Witness ==
  /\ op.kind = "trigger" /\ op.arg = MaxVal /\ ErrorPublished
  /\ ~running
  /\ Len(log) = 1
  /\ log[1].l = "f2" /\ log[1].ev.type = "err" /\ log[1].ev.new = BoomError

\* The listeners with a pending invocation in the state after the step.
NotifiedNext ==
  UNION {{queue'[qn][i].l : i \in DOMAIN queue'[qn]} : qn \in QNames}

\* The elements of a list of listeners.
Range(ls) == {ls[i] : i \in DOMAIN ls}

\* C20: a splice made by the application that removes r elements and inserts
\* n notifies nobody and opens no run when r = n = 0, exactly the index
\* listeners when r = n > 0, exactly the length listeners when exactly one of
\* r and n is 0, and the length and the index listeners when r and n are
\* different and neither is 0.
C20_SpliceClassification ==
  [][ (~running /\ op'.kind = "splice") =>
        LET n == Len(op'.body)
            r == Len(arr) + n - Len(arr')
        IN /\ (r = 0 /\ n = 0) => (NotifiedNext = {} /\ ~running')
           /\ (r = n /\ n > 0) => NotifiedNext = Range(idxListeners)
           /\ (r # n /\ (r = 0 \/ n = 0)) => NotifiedNext = Range(lenListeners)
           /\ (r # n /\ r > 0 /\ n > 0) =>
                NotifiedNext = Range(lenListeners) \cup Range(idxListeners) ]_vars

C20_Witness ==
  /\ op.kind = "splice" /\ JustOpened
  /\ Len(op.body) = 1
  /\ \A l \in {"f1", "f2", "g2"} : Pending(l)
  /\ \E i \in DOMAIN queue[DefaultQ] :
       Len(queue[DefaultQ][i].ev.sp) = 2 /\ Len(queue[DefaultQ][i].ev.ins) = 1

\* The events of the invocations pending in the state after the step.
EventsNext ==
  UNION {{queue'[qn][i].ev : i \in DOMAIN queue'[qn]} : qn \in QNames}

\* The array events among them, and the invocations that carry one.
ArrayEventsNext == {e \in EventsNext : e.type = "array"}

ArrayPendingNext ==
  UNION {{<< qn, i >> : i \in {j \in DOMAIN queue'[qn] :
                                queue'[qn][j].ev.type = "array"}} :
         qn \in QNames}

\* The storage the operation of the step leaves and the event that describes
\* it (whichever event object it is), computed from the storage before the
\* step.
C19_Described(ev) ==
  LET a == arr
      e == [ev EXCEPT !.id = 0]
      b == op'.body
      start == NativeStart(a, op'.arg)
  IN CASE op'.kind = "push" ->
            /\ arr' = a \o b
            /\ e = ArrEvent(OpAdd, Len(a) + Len(b) - 1, << >>, b)
       [] op'.kind = "unshift" ->
            /\ arr' = b \o a
            /\ e = ArrEvent(OpAdd, 0, << >>, b)
       [] op'.kind = "pop" ->
            /\ arr' = SubSeq(a, 1, Len(a) - 1)
            /\ e = ArrEvent(OpRemove, Len(a) - 1, << a[Len(a)] >>, << >>)
       [] op'.kind = "shift" ->
            /\ arr' = Tail(a)
            /\ e = ArrEvent(OpRemove, 0, << Head(a) >>, << >>)
       [] op'.kind = "reverse" ->
            /\ arr' = NativeReverse(a)
            /\ e = ArrEvent(OpReverse, 0 - 1, << >>, << >>)
       [] op'.kind = "sort" ->
            /\ arr' = NativeSort(a)
            /\ e = ArrEvent(OpSort, 0 - 1, << >>, << >>)
       [] op'.kind = "splice" ->
            /\ e.op = OpSplice /\ e.ind = op'.arg /\ e.ins = b
            /\ e.sp = SubSeq(a, start + 1, start + Len(e.sp))
            /\ arr' = SubSeq(a, 1, start) \o b
                        \o SubSeq(a, start + Len(e.sp) + 1, Len(a))

\* C19: a call of push, unshift, pop, shift, splice, reverse or sort by the
\* application that changes the storage leaves the storage mutated before
\* any listener runs, and has enqueued one event, which describes the whole
\* mutation: every pending invocation of a listener of the array carries
\* that event, no listener has two of them, and nothing has been executed.
\* Whatever else is pending is the value event of a property whose listener
\* the array notified.
C19_OneUpdate ==
  [][ (~running /\ op'.node = "arr" /\ arr' # arr) =>
        /\ running' /\ log' = << >>
        /\ Cardinality(ArrayEventsNext) = 1
        /\ \A e \in ArrayEventsNext : C19_Described(e)
        /\ Cardinality(ArrayPendingNext) >= 1
        /\ \A x, y \in ArrayPendingNext :
             queue'[x[1]][x[2]].l = queue'[y[1]][y[2]].l => x = y
        /\ \A e \in EventsNext \ ArrayEventsNext :
             /\ e.type = "value"
             /\ \E l \in Range(idxListeners) \cup Range(lenListeners) :
                  e.target = LProp(l) ]_vars

C19_Witness ==
  /\ op.kind = "push" /\ op.body = << 2, 1 >>
  /\ JustOpened
  /\ arr = << 1, 2, 1 >> \/ arr = << 2, 1 >>
  /\ cells = 0 .. (Len(arr) - 1)
  /\ PendingCount = 2
  /\ \A l \in {"f1", "f2"} : Pending(l)
  /\ \A i \in DOMAIN queue[DefaultQ] :
       queue[DefaultQ][i].ev = ArrEvent(OpAdd, Len(arr) - 1, << >>, << 2, 1 >>)

\* C21: the index-cells the array exposes are as many as the elements of its
\* backing storage, and they are the cells of the indices 0 .. length - 1.
C21_CellCount ==
  /\ Cardinality(cells) = Len(arr)
  /\ cells = 0 .. (Len(arr) - 1)

\* The events listener l was called with in the state after the step, in
\* the order of the calls.
RECURSIVE EventsOf(_, _)
EventsOf(lg, l) ==
  IF lg = << >> THEN << >>
  ELSE IF Head(lg).l = l THEN << Head(lg).ev >> \o EventsOf(Tail(lg), l)
  ELSE EventsOf(Tail(lg), l)

\* The positions, counted from 0, that the splice event e covers.
Covered(e) ==
  KeyIndex(e.ind) .. (KeyIndex(e.ind) + Max(Len(e.sp), Len(e.ins)) - 1)

\* C22: a replacement of the storage old by new made while no run is open
\* publishes splice events whose regions lie in ascending order with an
\* unchanged position between any two; each event carries the old and the
\* new elements of its region, every position of a region differs between
\* old and new, and every position outside the regions is unchanged.  For
\* old = [1, 2, 3, 4] and new = [1, 9, 9, 4] there is exactly one event, at
\* index 1, with spliced = [2, 3] and inserted = [9, 9].
C22_MinimalDiff ==
  [][ (~running /\ op'.kind = "reFilter") =>
        LET old == arr
            new == arr'
            evs == EventsOf(log', "f1")
        IN /\ arr' = op'.body
           /\ \A i \in DOMAIN evs :
                LET e == evs[i]
                    k == KeyIndex(e.ind)
                IN /\ e.op = OpSplice
                   /\ Len(e.sp) + Len(e.ins) > 0
                   /\ e.sp = SubSeq(old, k + 1, k + Len(e.sp))
                   /\ e.ins = SubSeq(new, k + 1, k + Len(e.ins))
                   /\ \A j \in 1 .. Min(Len(e.sp), Len(e.ins)) :
                        e.sp[j] # e.ins[j]
                   /\ Len(e.sp) # Len(e.ins) =>
                        /\ k + Len(e.sp) = Len(old)
                        /\ k + Len(e.ins) = Len(new)
                   /\ i > 1 =>
                        \A p \in Covered(evs[i - 1]) : p + 1 < k
           /\ \A p \in 0 .. (Max(Len(old), Len(new)) - 1) :
                (\A i \in DOMAIN evs : p \notin Covered(evs[i])) =>
                  /\ p < Len(old) /\ p < Len(new)
                  /\ old[p + 1] = new[p + 1]
           /\ (old = << 1, 2, 3, 4 >> /\ new = << 1, 9, 9, 4 >>) =>
                /\ Len(evs) = 1
                /\ \A i \in DOMAIN log' : log'[i].ev = evs[1]
                /\ KeyIndex(evs[1].ind) = 1
                /\ evs[1].sp = << 2, 3 >>
                /\ evs[1].ins = << 9, 9 >> ]_vars

C22_Witness ==
  /\ op.kind = "reFilter" /\ op.body = << 1, 9, 9, 4 >>
  /\ arr = << 1, 9, 9, 4 >>
  /\ ~running
  /\ Len(log) = 2
  /\ log[1].l = "f1" /\ log[2].l = "g2" /\ log[2].ev = log[1].ev
  /\ log[1].ev.sp = << 2, 3 >> /\ log[1].ev.ins = << 9, 9 >>
  /\ KeyIndex(log[1].ev.ind) = 1

\* The queue an invocation of listener l published by node n belongs on.
RouteOf(l, n) ==
  IF LQueueName(l) # NoQ THEN LQueueName(l)
  ELSE IF NodeQueueName(n) # NoQ THEN NodeQueueName(n)
  ELSE DefaultQ

\* The node that published event ev: the property or the array it names,
\* the stream for the events of a stream.
Publisher(ev) == IF ev.target = NoQ THEN "S" ELSE ev.target

\* C23: every pending invocation a property, a stream or the array has
\* deferred is on the queue of its listener's own queue name if the listener
\* has one, else on the queue of the publishing node's queue name, else on
\* the default queue.
C23_QueueRouting ==
  \A qn \in QNames : \A i \in DOMAIN queue[qn] :
    qn = RouteOf(queue[qn][i].l, Publisher(queue[qn][i].ev))

\* The pushes of listener l in the body of the run opened by the step, and
\* the index of the push that first enqueued entry e of that run: the first
\* push of a listener pushed only with pushOnce, the entry's own push for a
\* listener pushed only with push.
PushesNext(l) == {i \in DOMAIN op'.body : op'.body[i].l = l}

Uniform(l) ==
  \/ \A i \in PushesNext(l) : op'.body[i].once
  \/ \A i \in PushesNext(l) : ~op'.body[i].once

FirstEnqueue(e) ==
  IF \A i \in PushesNext(e.l) : op'.body[i].once
  THEN CHOOSE i \in PushesNext(e.l) : \A j \in PushesNext(e.l) : i <= j
  ELSE e.ev.new

\* C24: the flush executes the head of the queue it drains; the entries
\* that stay pending keep their positions relative to each other, whatever
\* is enqueued meanwhile, and new entries go behind them; the queue a run
\* body leaves lists its entries in the order of their first enqueue, an
\* entry enqueued again with pushOnce carrying the arguments of its last
\* enqueue.
C24_WithinQueueOrder ==
  [][ /\ (running /\ cur # NoQ) =>
           /\ Len(log') = Len(log) + 1
           /\ log'[Len(log')].l = Head(queue[cur]).l
           /\ log'[Len(log')].ev = Head(queue[cur]).ev
           /\ log'[Len(log')].q = cur
           /\ \A qn \in QNames :
                LET base == IF qn = cur THEN Tail(queue[qn]) ELSE queue[qn]
                IN /\ Len(queue'[qn]) >= Len(base)
                   /\ \A i \in DOMAIN base : queue'[qn][i].l = base[i].l
      /\ (~running /\ op'.kind = "run") =>
           LET q == queue'[DefaultQ]
           IN /\ \A i \in DOMAIN q : q[i].ev.new \in PushesNext(q[i].l)
              /\ \A i \in DOMAIN q : \A j \in DOMAIN q :
                   (i < j /\ Uniform(q[i].l) /\ Uniform(q[j].l)) =>
                     FirstEnqueue(q[i]) < FirstEnqueue(q[j])
              /\ \A i \in DOMAIN q :
                   (\A k \in PushesNext(q[i].l) : op'.body[k].once) =>
                     \A k \in PushesNext(q[i].l) : k <= q[i].ev.new ]_vars

C24_Witness ==
  /\ ~running
  /\ op.kind = "run" /\ Len(op.body) = 3
  /\ op.body[1].l = "f1" /\ op.body[1].once
  /\ op.body[2].l = "f2"
  /\ op.body[3].l = "f1" /\ op.body[3].once
  /\ Len(log) = 2
  /\ log[1].l = "f1" /\ log[1].ev.new = 3
  /\ log[2].l = "f2" /\ log[2].ev.new = 2

\* C25: a call of the application that makes the array longer has defined
\* the index-cells of the new positions when it enqueues its update; a call
\* that makes it shorter still exposes the index-cells of the removed
\* trailing positions when it enqueues its update, and releases them after.
C25_BookkeepingOrder ==
  [][ (~running /\ op'.node = "arr" /\ running'
         /\ op'.kind \in {"push", "unshift", "pop", "shift", "splice"}) =>
        /\ Len(arr') > Len(arr) =>
             \A i \in Len(arr) .. (Len(arr') - 1) : i \in enqCells'
        /\ Len(arr') < Len(arr) =>
             /\ \A i \in Len(arr') .. (Len(arr) - 1) :
                  i \in cells => i \in enqCells'
             /\ \A i \in Len(arr') .. (Len(arr) - 1) : i \notin cells' ]_vars

\* The step rebuilt the property of a field.
RebuiltNext == lastSet'.reprob /\ lastSet' # lastSet

\* C26: a step that rebuilds a property leaves the new cell ready with the
\* listeners of the old cell, in their order, and with an invocation pending
\* for each of them that carries the event of the change; and the call of
\* the listener of a destroyed cell changes no value and enqueues nothing.
C26_ListenersSurvive ==
  [][ /\ RebuiltNext =>
           LET f == lastSet'.f
           IN /\ pstate'[f] = "ready"
              /\ listeners'[f] = listeners[f]
              /\ \A l \in Range(listeners[f]) :
                   \E qn \in QNames : \E i \in DOMAIN queue'[qn] :
                     /\ queue'[qn][i].l = l
                     /\ queue'[qn][i].ev.type = "value"
                     /\ queue'[qn][i].ev.target = f
                     /\ queue'[qn][i].ev.new = lastSet'.tv
      /\ (running /\ cur # NoQ /\ Head(queue[cur]).l \in dead) =>
           /\ val' = val
           /\ listeners' = listeners
           /\ queue' = [queue EXCEPT ![cur] = Tail(@)] ]_vars

C26_Witness ==
  /\ lastSet.f = "C" /\ lastSet.reprob /\ lastSet.tv = ObjVal
  /\ pstate["C"] = "ready" /\ ptype["C"] = TObject
  /\ listeners["C"] = << MakeListener("D", 2) >>
  /\ "lC" \in dead
  /\ \E i \in DOMAIN queue[DefaultQ] :
       /\ queue[DefaultQ][i].l = "lD"
       /\ queue[DefaultQ][i].ev.target = "C"
       /\ queue[DefaultQ][i].ev.new = ObjVal

\* The splice events pending for listener l in queue qn.
RECURSIVE PendingSplices(_, _)
PendingSplices(q, l) ==
  IF q = << >> THEN << >>
  ELSE IF Head(q).l = l /\ Head(q).ev.type = "array"
            /\ Head(q).ev.op = OpSplice
       THEN << Head(q).ev >> \o PendingSplices(Tail(q), l)
       ELSE PendingSplices(Tail(q), l)

\* The regions of d as the splice events that report them, in the order of
\* their keys.
RECURSIVE RegionEvents(_, _)
RegionEvents(d, keys) ==
  IF keys = << >> THEN << >>
  ELSE << [ind |-> ToString(Head(keys)), sp |-> d[Head(keys)].o,
           ins |-> d[Head(keys)].n] >>
       \o RegionEvents(d, Tail(keys))

Told(evs) ==
  [i \in DOMAIN evs |->
     [ind |-> evs[i].ind, sp |-> evs[i].sp, ins |-> evs[i].ins]]

\* C27: a replacement of the storage whose diff has k regions hands the
\* listener f1, which listens to index and to length changes, the splice
\* event of every region, in the order of the regions: called while no run
\* is open the k events have been delivered when the call returns, and
\* called by the listener rf inside an open run the k events are pending
\* for f1 when rf returns.
C27_EveryRegionDelivered ==
  [][ LET d == Diff(arr, arr')
          regions == RegionEvents(d, ForInKeys(DOMAIN d))
      IN /\ (~running /\ op'.kind = "reFilter") =>
              Told(EventsOf(log', "f1")) = regions
         /\ (running /\ cur # NoQ /\ Head(queue[cur]).l = "rf") =>
              Told(PendingSplices(queue'[DefaultQ], "f1")) = regions ]_vars

\* The values the stream s accepts of the triggers of items, in the order
\* of the triggers.
RECURSIVE AcceptedOf(_, _)
AcceptedOf(s, items) ==
  IF items = << >> THEN << >>
  ELSE LET it == Head(items)
           e == IF it.tr THEN ActorTransform(transforms[s], it.v) ELSE it.v
       IN (IF e \in {BadValue, Thrown} THEN << >> ELSE << e >>)
          \o AcceptedOf(s, Tail(items))

\* The values of the raw events pending for listener l in queue q.
RECURSIVE PendingRaw(_, _)
PendingRaw(q, l) ==
  IF q = << >> THEN << >>
  ELSE IF Head(q).l = l /\ Head(q).ev.type = "raw"
       THEN << Head(q).ev.new >> \o PendingRaw(Tail(q), l)
       ELSE PendingRaw(Tail(q), l)

RECURSIVE RawOf(_, _)
RawOf(lg, l) ==
  IF lg = << >> THEN << >>
  ELSE IF Head(lg).l = l /\ Head(lg).ev.type = "raw"
       THEN << Head(lg).ev.new >> \o RawOf(Tail(lg), l)
       ELSE RawOf(Tail(lg), l)

\* The listeners of S that are no property's, and those among them that
\* no other stream notifies.
PlainOf(ls) == {ls[i] : i \in DOMAIN ls} \ PropListeners
OnlyOf(ls, others) ==
  {l \in PlainOf(ls) : \A i \in DOMAIN others : others[i] # l}

\* C28: when a run in which the stream S was triggered k times with
\* accepted values has left its body, k invocations are pending for every
\* listener of S that is not property-backed (the function f1, the
\* listeners of the streams derived from S), in the order of the triggers,
\* each with the event of its trigger; and when the flush of that run has
\* ended every such listener that only S notifies has been called k times,
\* with these events in that order.
C28_NoCollapse ==
  [][ /\ (~running /\ op'.kind = "runTriggers") =>
           \A l \in PlainOf(listeners'["S"]) :
             PendingRaw(queue'[DefaultQ], l) = AcceptedOf("S", op'.body)
      /\ (op'.kind = "runTriggers" /\ ~running') =>
           \A l \in OnlyOf(listeners'["S"], listeners'["T"]) :
             RawOf(log', l) = AcceptedOf("S", op'.body) ]_vars

C28_Witness ==
  /\ op.kind = "runTriggers" /\ ~running
  /\ Len(op.body) = 2
  /\ AcceptedOf("S", op.body) = << 1, 0 >>
  /\ listeners["S"] = << "f1", "lD", "lT", "lU" >>
  /\ RawOf(log, "f1") = << 1, 0 >>
  /\ RawOf(log, "lT") = << 1, 0 >>

====
